---- MODULE Spec2Model ----
(***************************************************************************)
(* Model of the chunk storage engine of MCPy (world_engine.pyx):           *)
(* ChunkSection, Chunk, TerrainGenerator (terrain pass) and WorldEngine    *)
(* (resident table, eviction, persistence).                                *)
(*                                                                         *)
(* The block grid is projected onto a finite sample of positions: the      *)
(* local lines SampleLines and the heights that the inputs name.  Every    *)
(* loop of the code over x, y, z is taken over the sampled positions.      *)
(* Integer arithmetic is that of the compiled module: the file is built    *)
(* with cdivision=True, so // and % on C ints truncate toward zero, and    *)
(* the height map and block grids hold uint8 values.                       *)
(***************************************************************************)
EXTENDS Integers, Sequences, FiniteSets, TLC

VARIABLES
    col,            \* SpecChunk: one free-standing Chunk object
    chunks,         \* WorldEngine.chunks: dict in insertion order, as a sequence of Chunks
    disk,           \* the chunk files of the world directory, by chunk coordinate
    world_dat,      \* the file <world>/world.dat
    view_distance,  \* WorldEngine.view_distance
    terrain,        \* the values of the noise functions, by chunk coordinate
    now,            \* time(NULL), in seconds
    io_failures,    \* number of operations in which a file operation has failed so far
    written,        \* history: world position -> last value a set_block call accepted
    preRestart,     \* history: coordinate -> Chunk resident and clean at the last restart
    gen,            \* SpecGen: two runs of a TerrainGenerator built from the same seed
    early,          \* history: coordinates populate_chunk was called for too early
    heap,           \* SpecThreads: the Chunk objects allocated so far, by reference
    table,          \* SpecThreads: WorldEngine.chunks as a sequence of references
    thr,            \* SpecThreads: per thread, its call, position, locks and locals
    lastOp          \* history: the last operation, its inputs and its results

vars == <<col, chunks, disk, world_dat, view_distance, terrain, now, io_failures,
          written, preRestart, gen, early, heap, table, thr, lastOp>>

----------------------------------------------------------------------------
(* Program constants *)

CHUNK_SIZE == 16
MAX_HEIGHT == 384
MIN_HEIGHT == -64
SECTION_HEIGHT == 16

(* Bounds of the model *)

MaxBlockId == 1        \* block ids written by callers are 0..MaxBlockId
MaxTime == 1           \* the clock runs from 0 to MaxTime
MaxFailures == 1       \* at most this many operations meet a file failure
MaxViewDistance == 1   \* view_distance is drawn from 0..MaxViewDistance
MaxResident == 20      \* SpecEvict: generate_chunk fills the table up to this size

(* Sampled positions *)

SampleLines == {<<5, 5>>}                  \* local (x, z) lines that are tracked
SampleLocalY == {0, 15}                     \* local y inside a section that are tracked
LPos == {<<l[1], ly, l[2]>> : l \in SampleLines, ly \in SampleLocalY}

BlockIds == 0..MaxBlockId

----------------------------------------------------------------------------
(* C integer arithmetic *)

\* a // b on C ints under cdivision=True (b > 0): truncation toward zero
CDiv(a, b) == IF a >= 0 THEN a \div b ELSE -((-a) \div b)

\* a % b on C ints under cdivision=True: the sign follows the dividend
CMod(a, b) == a - b * CDiv(a, b)

\* conversion of a C int to uint8_t
ToUint8(v) == v % 256

\* conversion of a C int to int16_t
ToInt16(v) == ((v + 32768) % 65536) - 32768

MaxOf(S) == CHOOSE m \in S : \A n \in S : n <= m

----------------------------------------------------------------------------
(* ChunkSection *)

NewSection(y_index) ==
    [y_index |-> y_index,
     blocks |-> [p \in LPos |-> 0],
     modified |-> FALSE,
     empty |-> TRUE,
     all_air |-> TRUE]

InSection(x, y, z) ==
    /\ 0 <= x /\ x < CHUNK_SIZE
    /\ 0 <= y /\ y < SECTION_HEIGHT
    /\ 0 <= z /\ z < CHUNK_SIZE

SectionGetBlock(s, x, y, z) ==
    IF ~InSection(x, y, z) THEN 0
    ELSE IF <<x, y, z>> \in LPos THEN s.blocks[<<x, y, z>>] ELSE 0

\* self.blocks == 0 in a method: blocks is a typed memoryview, the comparison is
\* made on Python objects, the memoryview object defines no __eq__ and is not
\* the int, so the value is the scalar False whatever the blocks are
MemoryviewEquals(blocks, v) == FALSE

\* np.all of a scalar bool
NpAll(v) == v

\* returns [section, result]
SectionSetBlock(s, x, y, z, block_id) ==
    IF ~InSection(x, y, z) THEN [section |-> s, result |-> FALSE]
    ELSE LET b == [p \in LPos |-> IF p = <<x, y, z>> THEN block_id ELSE s.blocks[p]]
             air == IF block_id # 0 THEN FALSE ELSE NpAll(MemoryviewEquals(b, 0))
         IN [section |-> [s EXCEPT !.blocks = b, !.modified = TRUE,
                                   !.empty = air, !.all_air = air],
             result |-> TRUE]

----------------------------------------------------------------------------
(* Chunk *)

NoSections == [i \in {} |-> NewSection(0)]

InitHeight == 0

NewChunk(x, z, t) ==
    [x |-> x, z |-> z,
     sections |-> NoSections,
     biomes |-> [l \in SampleLines |-> 0],
     height_map |-> [l \in SampleLines |-> InitHeight],
     generated |-> FALSE,
     populated |-> FALSE,
     modified |-> FALSE,
     last_used |-> t]

GetSection(c, y_index) ==
    IF y_index \in DOMAIN c.sections THEN c
    ELSE [c EXCEPT !.sections = (y_index :> NewSection(y_index)) @@ c.sections]

ChunkGetBlock(c, x, y, z) ==
    IF ToInt16(CDiv(y, SECTION_HEIGHT)) \notin DOMAIN c.sections THEN 0
    ELSE SectionGetBlock(c.sections[ToInt16(CDiv(y, SECTION_HEIGHT))],
                         x, CMod(y, SECTION_HEIGHT), z)

\* y // SECTION_HEIGHT stored in an int16_t, and y % SECTION_HEIGHT
SectionY(y) == ToInt16(CDiv(y, SECTION_HEIGHT))
LocalY(y) == CMod(y, SECTION_HEIGHT)

\* the value the loop over ny leaves in the height map: the first non-air y found,
\* and the old value when the loop ends without finding one
RescanStore(found, old) == IF found = {} THEN old ELSE ToUint8(MaxOf(found))

\* the downward scan of set_block
Rescan(c, x, y, z) ==
    RescanStore({ny \in MIN_HEIGHT..(y - 1) : ChunkGetBlock(c, x, ny, z) # 0},
                c.height_map[<<x, z>>])

\* the height-map entry after a block was stored; h is the entry before
NewHeight(c, h, x, y, z, block_id) ==
    IF block_id # 0 /\ y > h THEN ToUint8(y)
    ELSE IF block_id = 0 /\ y = h THEN Rescan(c, x, y, z)
    ELSE h

\* the branch "if result" of set_block; c holds the section already written
UpdateHeightMap(c, x, y, z, block_id) ==
    [chunk |-> [c EXCEPT !.modified = TRUE,
                         !.height_map = [l \in SampleLines |->
                             IF l = <<x, z>>
                             THEN NewHeight(c, c.height_map[l], x, y, z, block_id)
                             ELSE c.height_map[l]]],
     result |-> TRUE]

\* set_block after section.set_block returned r; c holds the section of y
StoreSection(c, r, x, y, z, block_id) ==
    IF r.result
    THEN UpdateHeightMap([c EXCEPT !.sections[SectionY(y)] = r.section], x, y, z, block_id)
    ELSE [chunk |-> c, result |-> FALSE]

\* set_block after get_section; c holds the section of y
SetInSection(c, x, y, z, block_id) ==
    StoreSection(c, SectionSetBlock(c.sections[SectionY(y)], x, LocalY(y), z, block_id),
                 x, y, z, block_id)

\* returns [chunk, result]
ChunkSetBlock(c, x, y, z, block_id) ==
    IF ~(/\ 0 <= x /\ x < CHUNK_SIZE
         /\ MIN_HEIGHT <= y /\ y < MAX_HEIGHT
         /\ 0 <= z /\ z < CHUNK_SIZE)
    THEN [chunk |-> c, result |-> FALSE]
    ELSE SetInSection(GetSection(c, SectionY(y)), x, y, z, block_id)

\* the y of the topmost non-air block of a line, read through Chunk.get_block
NonAirYs(c, x, z) == {y \in MIN_HEIGHT..(MAX_HEIGHT - 1) : ChunkGetBlock(c, x, y, z) # 0}
TopY(c, x, z) == MaxOf(NonAirYs(c, x, z))

----------------------------------------------------------------------------
(* Chunk serialization *)

\* the heights that are tracked; each has its local y in SampleLocalY
TrackedYs == {-64, -49, -1, 0, 15, 47, 48, 63, 64, 79, 255, 256}

SectionToData(s) == [y_index |-> s.y_index, blocks |-> s.blocks, empty |-> s.empty]

\* np.frombuffer(b, dtype=np.uint8) on a bytes object, reshaped: the array shares
\* the memory of the immutable bytes object and is read-only
Frombuffer(b) == [data |-> b, writeable |-> FALSE]

\* the assignment of an array to a uint8_t[...] field: the field is a writable
\* typed memoryview, the array is asked for a writable buffer, and a read-only
\* array answers with ValueError
Binds(arr) == arr.writeable

Raised == [ok |-> FALSE]
Returned(v) == [ok |-> TRUE, value |-> v]

\* returns Raised or Returned(section)
SectionFromData(d) ==
    LET blocks == Frombuffer(d.blocks)
    IN IF ~Binds(blocks) THEN Raised
       ELSE Returned([y_index |-> d.y_index,
                      blocks |-> blocks.data,
                      modified |-> FALSE,
                      empty |-> d.empty,
                      all_air |-> \A p \in LPos : blocks.data[p] = 0])

\* only the sections whose empty flag is false are written
SavedSections(c) == {i \in DOMAIN c.sections : ~c.sections[i].empty}

ToData(c) ==
    [x |-> c.x, z |-> c.z,
     biomes |-> c.biomes,
     height_map |-> c.height_map,
     generated |-> c.generated,
     populated |-> c.populated,
     sections |-> [i \in SavedSections(c) |-> SectionToData(c.sections[i])]]

\* returns Raised or Returned(chunk)
FromData(d, t) ==
    LET biomes == Frombuffer(d.biomes)
        height_map == Frombuffer(d.height_map)
        secs == [i \in DOMAIN d.sections |-> SectionFromData(d.sections[i])]
    IN IF ~Binds(biomes) \/ ~Binds(height_map) \/ \E i \in DOMAIN secs : ~secs[i].ok
       THEN Raised
       ELSE Returned([x |-> d.x, z |-> d.z,
                      sections |-> [i \in DOMAIN secs |-> secs[i].value],
                      biomes |-> biomes.data,
                      height_map |-> height_map.data,
                      generated |-> d.generated,
                      populated |-> d.populated,
                      modified |-> FALSE,
                      last_used |-> t])

\* two Chunks hold the same blocks at every tracked position and the same grids
SameContents(a, b) ==
    /\ \A l \in SampleLines : \A y \in TrackedYs :
          ChunkGetBlock(a, l[1], y, l[2]) = ChunkGetBlock(b, l[1], y, l[2])
    /\ a.height_map = b.height_map
    /\ a.biomes = b.biomes

----------------------------------------------------------------------------
(* TerrainGenerator: the terrain pass *)

OCEAN == 0
PLAINS == 1
DESERT == 2
MOUNTAINS == 3
FOREST == 4
TAIGA == 5
SWAMP == 6
RIVER == 7
SNOWY_TUNDRA == 10
JUNGLE == 12
SAVANNA == 14

\* temp and humidity in hundredths
GetBiome(temp, humidity, height) ==
    IF height < 60 THEN OCEAN
    ELSE IF height > 120 THEN (IF temp < -30 THEN SNOWY_TUNDRA ELSE MOUNTAINS)
    ELSE IF temp < -50 THEN SNOWY_TUNDRA
    ELSE IF temp < 0 THEN (IF humidity > 30 THEN TAIGA ELSE PLAINS)
    ELSE IF temp < 50 THEN (IF humidity > 60 THEN SWAMP
                            ELSE IF humidity > 30 THEN FOREST ELSE PLAINS)
    ELSE IF humidity > 60 THEN JUNGLE
    ELSE IF humidity > 20 THEN SAVANNA
    ELSE DESERT

\* the values the noise functions take on a column: uint8 height, temp, humidity
TerrainSamples ==
    {[height |-> 47, temp |-> 10, humidity |-> 40],
     [height |-> 79, temp |-> 70, humidity |-> 10]}

\* outcomes of the calls on self.rng while one column is filled
RngDraws == [d : 3..5, bedrock : BOOLEAN, gravel : BOOLEAN, ore : {2, 14}]

\* the block _set_surface_block leaves at y
SurfaceBlock(y, biome, height, draw) ==
    LET depth == height - y
    IN IF depth = 0
       THEN IF biome = DESERT THEN 12
            ELSE IF biome = SNOWY_TUNDRA THEN 78
            ELSE IF biome \in {SWAMP, RIVER, OCEAN} /\ y <= 65 THEN 3
            ELSE 4
       ELSE IF depth <= 3 THEN (IF biome = DESERT THEN 12 ELSE 3)
       ELSE IF depth <= 5 THEN (IF draw.gravel THEN 13 ELSE 3)
       ELSE draw.ore

\* the block _generate_column writes at y; 0 when it makes no call
ColumnBlock(y, height, biome, draw) ==
    LET stone_height == height - draw.d
    IN IF y <= MIN_HEIGHT + 3 THEN (IF y = MIN_HEIGHT \/ draw.bedrock THEN 1 ELSE 2)
       ELSE IF y <= stone_height THEN 2
       ELSE IF y <= height THEN SurfaceBlock(y, biome, height, draw)
       ELSE IF y <= 63 /\ height < 63 THEN 8
       ELSE 0

MinOf(S) == CHOOSE m \in S : \A n \in S : m <= n

\* one pass of the loop of _generate_column: the set_block call for y, if any
PlaceColumnBlock(c, x, y, z, b) ==
    IF b = 0 THEN c ELSE ChunkSetBlock(c, x, y, z, b).chunk

\* the loop of _generate_column over the tracked heights ys, bottom to top
RECURSIVE GenerateColumnFrom(_, _, _, _, _, _, _)
GenerateColumnFrom(c, x, z, height, biome, draw, ys) ==
    IF ys = {} THEN c
    ELSE CHOOSE r \in
           {GenerateColumnFrom(c1, x, z, height, biome, draw, ys \ {MinOf(ys)}) :
              c1 \in {PlaceColumnBlock(c, x, MinOf(ys), z,
                                       ColumnBlock(MinOf(ys), height, biome, draw))}} : TRUE

GenerateColumn(c, x, z, height, biome, draw) ==
    GenerateColumnFrom(c, x, z, height, biome, draw, TrackedYs)

RECURSIVE GenerateLines(_, _, _)
GenerateLines(c, lines, draw) ==
    IF lines = {} THEN c
    ELSE LET l == CHOOSE m \in lines : \A n \in lines : m[1] < n[1] \/ (m[1] = n[1] /\ m[2] <= n[2])
         IN GenerateLines(GenerateColumn(c, l[1], l[2], c.height_map[l], c.biomes[l], draw),
                          lines \ {l}, draw)

\* a generate_chunk whose height map takes a value drawn from self.rng
TerrainGenerateChunkDrawn(c, ter, draw) ==
    LET hm == [l \in SampleLines |-> ter.height - draw.d]
        bm == [l \in SampleLines |->
                  GetBiome(ter.temp - (ter.height - 64), ter.humidity, ter.height)]
    IN GenerateLines([c EXCEPT !.height_map = hm, !.biomes = bm], SampleLines, draw)

\* TerrainGenerator.generate_chunk: height map, biomes, then the columns
TerrainGenerateChunk(c, ter, draw) ==
    LET hm == [l \in SampleLines |-> ter.height]
        bm == [l \in SampleLines |->
                  GetBiome(ter.temp - (ter.height - 64), ter.humidity, ter.height)]
    IN GenerateLines([c EXCEPT !.height_map = hm, !.biomes = bm], SampleLines, draw)

\* a Chunk.generate that runs the terrain pass on every call
ChunkGenerateAlways(c, ter, draw) ==
    [TerrainGenerateChunk(c, ter, draw) EXCEPT !.generated = TRUE, !.modified = TRUE]

\* Chunk.generate
ChunkGenerate(c, ter, draw) ==
    IF c.generated THEN c
    ELSE [TerrainGenerateChunk(c, ter, draw) EXCEPT !.generated = TRUE, !.modified = TRUE]

----------------------------------------------------------------------------
(* WorldEngine: files *)

None == [some |-> FALSE]
Some(c) == [some |-> TRUE, chunk |-> c]

NoFile == [kind |-> "none"]
Corrupt == [kind |-> "corrupt"]
File(d) == [kind |-> "data", data |-> d]

\* how the file operations of one call end: all succeed, writes fail at open,
\* writes fail after the file was truncated, or reads fail
IoModes == {"ok", "wfail", "wtrunc", "rfail"}

\* WorldEngine.__cinit__
MaxChunks(vd) == vd * vd * 4 * 10

\* a _load_chunk that rebuilds the Chunk from the data of its file without binding
\* read-only arrays
LoadChunkDecoding(dk, cx, cz, t, io) ==
    LET f == dk[<<cx, cz>>]
    IN IF f.kind = "none" THEN [ret |-> None, failed |-> FALSE]
       ELSE IF io = "rfail" \/ f.kind = "corrupt" THEN [ret |-> None, failed |-> TRUE]
       ELSE [ret |-> Some([x |-> f.data.x, z |-> f.data.z,
                           sections |-> [i \in DOMAIN f.data.sections |->
                               [y_index |-> f.data.sections[i].y_index,
                                blocks |-> f.data.sections[i].blocks,
                                modified |-> FALSE,
                                empty |-> f.data.sections[i].empty,
                                all_air |-> \A q \in LPos : f.data.sections[i].blocks[q] = 0]],
                           biomes |-> f.data.biomes,
                           height_map |-> f.data.height_map,
                           generated |-> f.data.generated,
                           populated |-> f.data.populated,
                           modified |-> FALSE,
                           last_used |-> t]),
             failed |-> FALSE]

\* returns [ret, failed]; failed: an exception was caught and logged
LoadChunk(dk, cx, cz, t, io) ==
    LET f == dk[<<cx, cz>>]
    IN IF f.kind = "none" THEN [ret |-> None, failed |-> FALSE]
       ELSE IF io = "rfail" \/ f.kind = "corrupt" THEN [ret |-> None, failed |-> TRUE]
       ELSE LET r == FromData(f.data, t)
            IN IF r.ok THEN [ret |-> Some(r.value), failed |-> FALSE]
               ELSE [ret |-> None, failed |-> TRUE]

\* a _save_chunk that clears the dirty flag and writes nothing
SaveChunkFlagOnly(c, dk, io) ==
    [chunk |-> [c EXCEPT !.modified = FALSE], disk |-> dk, failed |-> FALSE]

\* returns [chunk, disk, failed]
SaveChunk(c, dk, io) ==
    IF ~c.modified THEN [chunk |-> c, disk |-> dk, failed |-> FALSE]
    ELSE IF io = "wfail" THEN [chunk |-> c, disk |-> dk, failed |-> TRUE]
    ELSE IF io = "wtrunc"
         THEN [chunk |-> c, disk |-> [dk EXCEPT ![<<c.x, c.z>>] = Corrupt], failed |-> TRUE]
    ELSE [chunk |-> [c EXCEPT !.modified = FALSE],
          disk |-> [dk EXCEPT ![<<c.x, c.z>>] = File(ToData(c))],
          failed |-> FALSE]

----------------------------------------------------------------------------
(* WorldEngine: file paths *)

\* a division by 32 that rounds toward zero
Shr5Trunc(x) == IF x >= 0 THEN x \div 32 ELSE (x + 31) \div 32

\* x >> 5 and x & 31 on int32_t (arithmetic shift, two's complement)
Shr5(x) == x \div 32
And31(x) == x % 32

Digit(d) == <<"0", "1", "2", "3", "4", "5", "6", "7", "8", "9">>[d + 1]

\* the decimal digits of n >= 0, as characters
RECURSIVE Digits(_)
Digits(n) == IF n < 10 THEN <<Digit(n)>> ELSE Digits(n \div 10) \o <<Digit(n % 10)>>

\* an int in an f-string
FormatInt(n) == IF n < 0 THEN <<"-">> \o Digits(-n) ELSE Digits(n)

\* the path below <world>/chunks, as a sequence of characters
ChunkPathOf(region_x, region_z, local_x, local_z) ==
    <<"r", ".">> \o FormatInt(region_x) \o <<".">> \o FormatInt(region_z)
    \o <<"/", "c", ".">> \o FormatInt(local_x) \o <<".">> \o FormatInt(local_z)
    \o <<".", "d", "a", "t">>

\* _get_chunk_path; returns [region_x, region_z, local_x, local_z, path]
GetChunkPath(chunk_x, chunk_z) ==
    [region_x |-> Shr5(chunk_x), region_z |-> Shr5(chunk_z),
     local_x |-> And31(chunk_x), local_z |-> And31(chunk_z),
     path |-> ChunkPathOf(Shr5(chunk_x), Shr5(chunk_z), And31(chunk_x), And31(chunk_z))]

----------------------------------------------------------------------------
(* WorldEngine: the resident table *)

\* position of the key "cx,cz" in the table, 0 when absent
IndexOf(tb, cx, cz) ==
    IF \E i \in 1..Len(tb) : tb[i].x = cx /\ tb[i].z = cz
    THEN CHOOSE i \in 1..Len(tb) : tb[i].x = cx /\ tb[i].z = cz
    ELSE 0

RemoveKey(tb, cx, cz) == SelectSeq(tb, LAMBDA c : ~(c.x = cx /\ c.z = cz))

\* an order that puts the most recently used Chunk first
OlderMRU(tb, i, j) ==
    \/ tb[i].last_used > tb[j].last_used
    \/ tb[i].last_used = tb[j].last_used /\ i < j

\* sorted(..., key=last_used) is stable: ties keep the dict's insertion order
Older(tb, i, j) ==
    \/ tb[i].last_used < tb[j].last_used
    \/ tb[i].last_used = tb[j].last_used /\ i < j

ChunksByAge(tb) ==
    [k \in 1..Len(tb) |->
        tb[CHOOSE i \in 1..Len(tb) :
              Cardinality({j \in 1..Len(tb) : Older(tb, j, i)}) = k - 1]]

\* the tenth of the table size, rounded up
NumToUnloadCeil(n) == (n + 9) \div 10

\* max(1, len(self.chunks) // 10)
NumToUnload(n) == IF n \div 10 > 1 THEN n \div 10 ELSE 1

\* an eviction loop that writes every Chunk it removes, whatever its modified flag
RECURSIVE UnloadFromSaving(_, _, _, _, _)
UnloadFromSaving(st, byAge, i, num, io) ==
    IF i > num \/ i > Len(byAge) THEN st
    ELSE LET chunk == byAge[i]
             sv == SaveChunk([chunk EXCEPT !.modified = TRUE], st.disk, io)
             ev == [chunk |-> chunk, file |-> sv.disk[<<chunk.x, chunk.z>>]]
         IN UnloadFromSaving([chunks |-> RemoveKey(st.chunks, chunk.x, chunk.z),
                              disk |-> sv.disk,
                              evicted |-> Append(st.evicted, ev),
                              failed |-> st.failed \/ sv.failed],
                             byAge, i + 1, num, io)

\* the loop of _unload_oldest_chunks from position i; st = [chunks, disk, evicted, failed]
RECURSIVE UnloadFrom(_, _, _, _, _)
UnloadFrom(st, byAge, i, num, io) ==
    IF i > num \/ i > Len(byAge) THEN st
    ELSE LET chunk == byAge[i]
             sv == IF chunk.modified THEN SaveChunk(chunk, st.disk, io)
                   ELSE [chunk |-> chunk, disk |-> st.disk, failed |-> FALSE]
             ev == [chunk |-> chunk, file |-> sv.disk[<<chunk.x, chunk.z>>]]
         IN UnloadFrom([chunks |-> RemoveKey(st.chunks, chunk.x, chunk.z),
                        disk |-> sv.disk,
                        evicted |-> Append(st.evicted, ev),
                        failed |-> st.failed \/ sv.failed],
                       byAge, i + 1, num, io)

\* returns [chunks, disk, evicted, failed]; evicted lists each removed Chunk as it
\* was when removed and the state of its file at that moment
UnloadOldestChunks(tb, dk, io) ==
    UnloadFrom([chunks |-> tb, disk |-> dk, evicted |-> <<>>, failed |-> FALSE],
               ChunksByAge(tb), 1, NumToUnload(Len(tb)), io)

\* a hit that returns the Chunk without update_last_used
GetChunkHitStale(tb, dk, i, e) ==
    [chunks |-> tb, disk |-> dk, ret |-> Some(tb[i]),
     hit |-> TRUE, loaded |-> FALSE, generated |-> FALSE,
     evN |-> 0, evicted |-> <<>>, evKept |-> {}, failed |-> FALSE]

\* get_chunk when the key is in the table at position i
GetChunkHit(tb, dk, i, e) ==
    [chunks |-> [tb EXCEPT ![i].last_used = e.t], disk |-> dk,
     ret |-> Some([tb[i] EXCEPT !.last_used = e.t]),
     hit |-> TRUE, loaded |-> FALSE, generated |-> FALSE,
     evN |-> 0, evicted |-> <<>>, evKept |-> {}, failed |-> FALSE]

\* the result of get_chunk after _unload_oldest_chunks returned u on a table of n
\* Chunks; r is the result without the eviction
AfterEviction(r, u, n) ==
    [r EXCEPT !.chunks = u.chunks, !.disk = u.disk,
              !.evN = n, !.evicted = u.evicted,
              !.evKept = {u.chunks[k].last_used : k \in 1..Len(u.chunks)},
              !.failed = r.failed \/ u.failed]

\* the capacity check of get_chunk; r is the result with the Chunk inserted
CheckCapacity(r, e) ==
    IF Len(r.chunks) > e.max_chunks
    THEN AfterEviction(r, UnloadOldestChunks(r.chunks, r.disk, e.io), Len(r.chunks))
    ELSE r

\* get_chunk from the insertion of chunk on
InsertChunk(tb, dk, chunk, loaded, failed, e) ==
    CheckCapacity([chunks |-> Append(tb, chunk), disk |-> dk, ret |-> Some(chunk),
                   hit |-> FALSE, loaded |-> loaded, generated |-> ~loaded,
                   evN |-> 0, evicted |-> <<>>, evKept |-> {}, failed |-> failed],
                  e)

\* get_chunk after _load_chunk returned ld
GetChunkMiss(tb, dk, cx, cz, generate, ld, e) ==
    IF ld.ret.some THEN InsertChunk(tb, dk, ld.ret.chunk, TRUE, ld.failed, e)
    ELSE IF generate
         THEN InsertChunk(tb, dk,
                          ChunkGenerate(NewChunk(cx, cz, e.t), e.ter[<<cx, cz>>], e.draw),
                          FALSE, ld.failed, e)
    ELSE [chunks |-> tb, disk |-> dk, ret |-> None,
          hit |-> FALSE, loaded |-> FALSE, generated |-> FALSE,
          evN |-> 0, evicted |-> <<>>, evKept |-> {}, failed |-> ld.failed]

\* get_chunk; e = [t, io, ter, draw, max_chunks]
\* returns [chunks, disk, ret, hit, loaded, generated, evN, evicted, evKept, failed];
\* evN is the table size when eviction ran (0 when it did not), evKept the last_used
\* values left in the table right after it
GetChunk(tb, dk, cx, cz, generate, e) ==
    IF IndexOf(tb, cx, cz) # 0
    THEN GetChunkHit(tb, dk, IndexOf(tb, cx, cz), e)
    ELSE GetChunkMiss(tb, dk, cx, cz, generate, LoadChunk(dk, cx, cz, e.t, e.io), e)

----------------------------------------------------------------------------
(* WorldEngine: operations *)

\* x >> 4 and x & 15 on C ints (arithmetic shift, two's complement)
Shr4(x) == x \div 16
And15(x) == x % 16

\* get_block after get_chunk returned g
ReadChunk(g, x, y, z) ==
    [chunks |-> g.chunks, disk |-> g.disk,
     result |-> IF ~g.ret.some THEN 0
                ELSE ChunkGetBlock(g.ret.chunk, And15(x), y, And15(z)),
     failed |-> g.failed]

\* a get_block that asks get_chunk to generate
WorldGetBlockGenerating(tb, dk, x, y, z, e) ==
    IF ~(MIN_HEIGHT <= y /\ y < MAX_HEIGHT)
    THEN [chunks |-> tb, disk |-> dk, result |-> 0, failed |-> FALSE]
    ELSE ReadChunk(GetChunk(tb, dk, Shr4(x), Shr4(z), TRUE, e), x, y, z)

\* returns [chunks, disk, result, failed]
WorldGetBlock(tb, dk, x, y, z, e) ==
    IF ~(MIN_HEIGHT <= y /\ y < MAX_HEIGHT)
    THEN [chunks |-> tb, disk |-> dk, result |-> 0, failed |-> FALSE]
    ELSE ReadChunk(GetChunk(tb, dk, Shr4(x), Shr4(z), FALSE, e), x, y, z)

\* the table after chunk.set_block returned w on the Chunk of key (cx, cz): the
\* call changed the object in the table if the object is still there
StoreWritten(tb, i, w) == IF i # 0 THEN [tb EXCEPT ![i] = w.chunk] ELSE tb

\* set_block after chunk.set_block returned w
WrittenChunk(g, i, w) ==
    [chunks |-> StoreWritten(g.chunks, i, w), disk |-> g.disk, result |-> w.result,
     failed |-> g.failed]

\* set_block after get_chunk returned g: the write goes to the object returned,
\* which is in the table (at position i) only if no eviction removed it
WriteChunk(g, i, x, y, z, block_id) ==
    IF ~g.ret.some
    THEN [chunks |-> g.chunks, disk |-> g.disk, result |-> FALSE, failed |-> g.failed]
    ELSE WrittenChunk(g, i,
                      ChunkSetBlock(IF i # 0 THEN g.chunks[i] ELSE g.ret.chunk,
                                    And15(x), y, And15(z), block_id))

SetBlockIn(g, x, y, z, block_id) ==
    WriteChunk(g, IndexOf(g.chunks, Shr4(x), Shr4(z)), x, y, z, block_id)

\* returns [chunks, disk, result, failed]
WorldSetBlock(tb, dk, x, y, z, block_id, e) ==
    IF ~(MIN_HEIGHT <= y /\ y < MAX_HEIGHT)
    THEN [chunks |-> tb, disk |-> dk, result |-> FALSE, failed |-> FALSE]
    ELSE SetBlockIn(GetChunk(tb, dk, Shr4(x), Shr4(z), TRUE, e), x, y, z, block_id)

\* generate_chunk after get_chunk returned g
GenerateIfAbsent(g, cx, cz, e) ==
    IF g.ret.some
    THEN [chunks |-> g.chunks, disk |-> g.disk, inserted |-> FALSE, failed |-> g.failed]
    ELSE [chunks |-> Append(g.chunks,
                            ChunkGenerate(NewChunk(cx, cz, e.t), e.ter[<<cx, cz>>], e.draw)),
          disk |-> g.disk, inserted |-> TRUE, failed |-> g.failed]

\* returns [chunks, disk, inserted, failed]
WorldGenerateChunk(tb, dk, cx, cz, e) ==
    GenerateIfAbsent(GetChunk(tb, dk, cx, cz, FALSE, e), cx, cz, e)

\* _save_world_data; returns [world_dat, failed]
SaveWorldData(wd, io) ==
    IF io = "wfail" THEN [world_dat |-> wd, failed |-> TRUE]
    ELSE IF io = "wtrunc" THEN [world_dat |-> "corrupt", failed |-> TRUE]
    ELSE [world_dat |-> "ok", failed |-> FALSE]

\* the loop of save_all from position i; st = [chunks, disk, failed, log]
RECURSIVE SaveAllFrom(_, _, _)
SaveAllFrom(st, i, io) ==
    IF i > Len(st.chunks) THEN st
    ELSE LET c == st.chunks[i]
             sv == SaveChunk(c, st.disk, io)
         IN SaveAllFrom([chunks |-> [st.chunks EXCEPT ![i] = sv.chunk],
                         disk |-> sv.disk,
                         failed |-> st.failed \/ sv.failed,
                         log |-> IF c.modified
                                 THEN Append(st.log, [file |-> "chunk", x |-> c.x, z |-> c.z])
                                 ELSE st.log],
                        i + 1, io)

\* returns [chunks, disk, world_dat, failed, log]; log lists the file writes in order
SaveAll(tb, dk, wd, io) ==
    LET cs == SaveAllFrom([chunks |-> tb, disk |-> dk, failed |-> FALSE, log |-> <<>>], 1, io)
        w == SaveWorldData(wd, io)
    IN [chunks |-> cs.chunks, disk |-> cs.disk, world_dat |-> w.world_dat,
        failed |-> cs.failed \/ w.failed,
        log |-> Append(cs.log, [file |-> "world"])]

\* _load_world_data, as run by the constructor; returns [world_dat, failed]
LoadWorldData(wd, io) ==
    IF wd = "none" THEN SaveWorldData(wd, io)
    ELSE IF wd = "corrupt" \/ io = "rfail"
         THEN [world_dat |-> SaveWorldData(wd, io).world_dat, failed |-> TRUE]
    ELSE [world_dat |-> wd, failed |-> FALSE]

----------------------------------------------------------------------------
(* TerrainGenerator: the population pass, and WorldEngine.populate_chunk *)

\* the state of one pass: p = [chunks, disk, failed, calls, passed, chunk, resident];
\* chunk is the Chunk object being populated, resident says that it is the object
\* the table holds under its key, calls counts the get_chunk calls of
\* are_surrounding_chunks_generated, passed says that the check let the pass go on

\* a call on the Chunk object left it as c1
OnChunk(p, c1) ==
    [p EXCEPT !.chunk = c1,
              !.chunks = IF p.resident /\ IndexOf(p.chunks, c1.x, c1.z) # 0
                         THEN [p.chunks EXCEPT ![IndexOf(p.chunks, c1.x, c1.z)] = c1]
                         ELSE p.chunks]

\* a call on the world returned r = [chunks, disk, failed, ...]
OnWorld(p, r) ==
    [p EXCEPT !.chunks = r.chunks, !.disk = r.disk, !.failed = p.failed \/ r.failed,
              !.chunk = IF p.resident /\ IndexOf(r.chunks, p.chunk.x, p.chunk.z) # 0
                        THEN r.chunks[IndexOf(r.chunks, p.chunk.x, p.chunk.z)]
                        ELSE p.chunk]

\* the coordinates are_surrounding_chunks_generated visits, in the order of its loops
Surrounding(cx, cz, radius) ==
    [k \in 1..((2 * radius + 1) * (2 * radius + 1)) |->
        <<cx - radius + ((k - 1) \div (2 * radius + 1)),
          cz - radius + ((k - 1) % (2 * radius + 1))>>]

\* one pass of its loop after get_chunk returned g; s = [chunks, disk, failed, calls, result]
NeighbourSeen(s, g) ==
    [chunks |-> g.chunks, disk |-> g.disk, failed |-> s.failed \/ g.failed,
     calls |-> s.calls + 1,
     result |-> g.ret.some /\ g.ret.chunk.generated]

\* the loop from position k on; it returns False at the first Chunk that is absent
\* or not generated
RECURSIVE SurroundingFrom(_, _, _, _)
SurroundingFrom(s, sur, k, e) ==
    IF k > Len(sur) THEN s
    ELSE CHOOSE r \in
           {IF n.result THEN SurroundingFrom(n, sur, k + 1, e) ELSE n :
              n \in {NeighbourSeen(s, GetChunk(s.chunks, s.disk, sur[k][1], sur[k][2],
                                               FALSE, e))}} : TRUE

\* returns [chunks, disk, failed, calls, result]
AreSurroundingChunksGenerated(tb, dk, cx, cz, radius, e) ==
    SurroundingFrom([chunks |-> tb, disk |-> dk, failed |-> FALSE, calls |-> 0,
                     result |-> TRUE],
                    Surrounding(cx, cz, radius), 1, e)

\* tree_chance of _add_trees, in hundredths
TreeChance(biome) ==
    IF biome = FOREST THEN 10
    ELSE IF biome = TAIGA THEN 8
    ELSE IF biome = JUNGLE THEN 20
    ELSE IF biome = PLAINS THEN 2
    ELSE IF biome = SWAMP THEN 4
    ELSE IF biome \in {DESERT, SNOWY_TUNDRA, OCEAN} THEN 0
    ELSE 1

GetTreeType(biome, pd) ==
    IF biome = TAIGA THEN "spruce"
    ELSE IF biome = JUNGLE THEN "jungle"
    ELSE IF biome = SWAMP THEN "swamp_oak"
    ELSE IF biome = FOREST THEN (IF pd.birch_roll < 20 THEN "birch" ELSE "oak")
    ELSE "oak"

\* the world.set_block calls of _generate_tree that fall on the line of the trunk,
\* in order, as <<x, y, z, block_id>>: the trunk, then the leaves with dx = dz = 0
TreeBlocks(x, y, z, tree_type, trunk_height) ==
    IF tree_type = "oak"
    THEN [k \in 1..trunk_height |-> <<x, y + (k - 1), z, 5>>]
         \o [k \in 1..4 |-> <<x, y + (trunk_height - 2) + (k - 1), z, 6>>]
    ELSE IF tree_type = "spruce"
    THEN [k \in 1..trunk_height |-> <<x, y + (k - 1), z, 5>>]
         \o [k \in 1..4 |-> <<x, y + trunk_height - (k - 1) - 1, z, 6>>]
    ELSE <<>>

\* the calls ws[k], ws[k + 1], ... on world.set_block
RECURSIVE PlaceBlocks(_, _, _, _)
PlaceBlocks(p, ws, k, e) ==
    IF k > Len(ws) THEN p
    ELSE CHOOSE r \in
           {PlaceBlocks(p1, ws, k + 1, e) :
              p1 \in {OnWorld(p, WorldSetBlock(p.chunks, p.disk, ws[k][1], ws[k][2],
                                               ws[k][3], ws[k][4], e))}} : TRUE

GenerateTree(p, x, y, z, tree_type, pd, e) ==
    PlaceBlocks(p, TreeBlocks(x, y, z, tree_type, pd.trunk), 1, e)

\* x, z are local; pd.tree_roll is rng.random() in hundredths
AddTrees(p, x, z, height, biome, pd, e) ==
    IF pd.tree_roll < TreeChance(biome)
       /\ ChunkGetBlock(p.chunk, x, height - 1, z) \in {3, 4}
    THEN GenerateTree(p, p.chunk.x * CHUNK_SIZE + x, height, p.chunk.z * CHUNK_SIZE + z,
                      GetTreeType(biome, pd), pd, e)
    ELSE p

AddVegetation(p, x, z, height, biome, pd) ==
    IF /\ biome \in {PLAINS, FOREST, TAIGA, SWAMP}
       /\ pd.veg_roll < 30
       /\ ChunkGetBlock(p.chunk, x, height, z) = 0
       /\ ChunkGetBlock(p.chunk, x, height - 1, z) = 4
    THEN OnChunk(p, ChunkSetBlock(p.chunk, x, height, z,
                                  IF pd.flower_roll < 80 THEN 31 ELSE 37).chunk)
    ELSE p

\* the body of the loops over x, z for one line; height is read before the trees
PopulateLine(p, x, z, height, biome, pd, e) ==
    IF height > 63
    THEN AddVegetation(AddTrees(p, x, z, height, biome, pd, e), x, z, height, biome, pd)
    ELSE p

RECURSIVE PopulateLines(_, _, _, _)
PopulateLines(p, lines, pd, e) ==
    IF lines = {} THEN p
    ELSE LET l == CHOOSE m \in lines : \A n \in lines : m[1] < n[1] \/ (m[1] = n[1] /\ m[2] <= n[2])
         IN PopulateLines(PopulateLine(p, l[1], l[2], p.chunk.height_map[l],
                                       p.chunk.biomes[l], pd, e),
                          lines \ {l}, pd, e)

\* _add_ore_veins: pd.vein lists the tracked positions its spheres reach, in order,
\* and pd.ore is the ore type drawn
RECURSIVE AddOreVeins(_, _, _)
AddOreVeins(p, pd, k) ==
    IF k > Len(pd.vein) THEN p
    ELSE AddOreVeins(IF ChunkGetBlock(p.chunk, pd.vein[k][1], pd.vein[k][2], pd.vein[k][3]) = 2
                     THEN OnChunk(p, ChunkSetBlock(p.chunk, pd.vein[k][1], pd.vein[k][2],
                                                   pd.vein[k][3], pd.ore).chunk)
                     ELSE p,
                     pd, k + 1)

\* populate_chunk after are_surrounding_chunks_generated returned s
PopulateFeatures(p, s, pd, e) ==
    IF ~s.result THEN [OnWorld(p, s) EXCEPT !.calls = s.calls]
    ELSE AddOreVeins(PopulateLines([OnWorld(p, s) EXCEPT !.calls = s.calls, !.passed = TRUE],
                                   SampleLines, pd, e),
                     pd, 1)

\* TerrainGenerator.populate_chunk
GeneratorPopulateChunk(p, pd, e) ==
    PopulateFeatures(p, AreSurroundingChunksGenerated(p.chunks, p.disk, p.chunk.x,
                                                      p.chunk.z, 1, e),
                     pd, e)

\* the last two statements of Chunk.populate
MarkPopulated(p) == OnChunk(p, [p.chunk EXCEPT !.populated = TRUE, !.modified = TRUE])

\* a Chunk.populate that runs the pass whatever the flags say
ChunkPopulateUnguarded(c, resident, tb, dk, pd, e) ==
    MarkPopulated(GeneratorPopulateChunk(
        [chunks |-> tb, disk |-> dk, failed |-> FALSE, calls |-> 0, passed |-> FALSE,
         chunk |-> c, resident |-> resident], pd, e))

\* Chunk.populate on the object c with the world (tb, dk); returns p
ChunkPopulate(c, resident, tb, dk, pd, e) ==
    IF c.populated \/ ~c.generated
    THEN [chunks |-> tb, disk |-> dk, failed |-> FALSE, calls |-> 0, passed |-> FALSE,
          chunk |-> c, resident |-> resident]
    ELSE MarkPopulated(GeneratorPopulateChunk(
            [chunks |-> tb, disk |-> dk, failed |-> FALSE, calls |-> 0, passed |-> FALSE,
             chunk |-> c, resident |-> resident], pd, e))

\* the result of WorldEngine.populate_chunk: [chunks, disk, failed, calls, passed, ret]
Populated(p, failed) ==
    [chunks |-> p.chunks, disk |-> p.disk, failed |-> failed \/ p.failed,
     calls |-> p.calls, passed |-> p.passed, ret |-> Some(p.chunk)]

\* populate_chunk after get_chunk returned g; i is the position of the key in the table
PopulateIfGenerated(g, i, pd, e) ==
    IF g.ret.some /\ g.ret.chunk.generated /\ ~g.ret.chunk.populated
    THEN Populated(ChunkPopulate(IF i # 0 THEN g.chunks[i] ELSE g.ret.chunk, i # 0,
                                 g.chunks, g.disk, pd, e),
                   g.failed)
    ELSE [chunks |-> g.chunks, disk |-> g.disk, failed |-> g.failed,
          calls |-> 0, passed |-> FALSE, ret |-> g.ret]

PopulateIn(g, cx, cz, pd, e) == PopulateIfGenerated(g, IndexOf(g.chunks, cx, cz), pd, e)

\* WorldEngine.populate_chunk
WorldPopulateChunk(tb, dk, cx, cz, pd, e) ==
    PopulateIn(GetChunk(tb, dk, cx, cz, FALSE, e), cx, cz, pd, e)

----------------------------------------------------------------------------
(* Spec: a WorldEngine on a world directory *)

Coords == {<<-1, 0>>, <<0, 0>>}       \* chunk coordinates the callers name
WXIn == {5}                           \* world x of the block calls: chunk (0, 0)
WorldIo == {"ok", "wfail", "rfail"}   \* file outcomes drawn in this specification
WZIn == {5}
WYIn == {-1, 64}
WorldPos == WXIn \X WYIn \X WZIn

\* the rng outcomes drawn in this specification
WorldDraws == {[d |-> 3, bedrock |-> TRUE, gravel |-> FALSE, ore |-> 2]}

\* coherent noise: the sampled chunks share one terrain sample
TerrainField(cs) == {[c \in cs |-> s] : s \in TerrainSamples}

Env(io, draw) ==
    [t |-> now, io |-> io, ter |-> terrain, draw |-> draw,
     max_chunks |-> MaxChunks(view_distance)]

IoAllowed(io) == io = "ok" \/ io_failures < MaxFailures

\* the environment made a file operation of this call fail
CountFailure(io, failed) ==
    io_failures' = IF io # "ok" /\ failed /\ io_failures < MaxFailures
                   THEN io_failures + 1
                   ELSE io_failures

\* the first get_chunk for a coordinate after a restart uses up its preRestart entry
Touch(touched) ==
    preRestart' = [c \in DOMAIN preRestart |-> IF c \in touched THEN None ELSE preRestart[c]]

Init ==
    /\ col = NewChunk(0, 0, 0)
    /\ chunks = <<>>
    /\ disk = [c \in Coords |-> NoFile]
    /\ world_dat = "ok"
    /\ view_distance \in 0..MaxViewDistance
    /\ terrain \in TerrainField(Coords)
    /\ now = 0
    /\ io_failures = 0
    /\ written = [p \in WorldPos |-> -1]
    /\ preRestart = [c \in Coords |-> None]
    /\ gen = <<>>
    /\ early = {}
    /\ heap = <<>> /\ table = <<>> /\ thr = <<>>
    /\ lastOp = [op |-> "new"]

GetChunkAct(cx, cz, generate, io, draw) ==
    \E g \in {GetChunk(chunks, disk, cx, cz, generate, Env(io, draw))} :
       /\ IoAllowed(io)
       /\ chunks' = g.chunks
       /\ disk' = g.disk
       /\ CountFailure(io, g.failed)
       /\ Touch({<<cx, cz>>})
       /\ lastOp' = [op |-> "get_chunk", cx |-> cx, cz |-> cz, generate |-> generate,
                     io |-> io,
                     ret |-> g.ret, hit |-> g.hit, loaded |-> g.loaded,
                     generated |-> g.generated, evN |-> g.evN, evicted |-> g.evicted,
                     evKept |-> g.evKept, failed |-> g.failed,
                     pre |-> preRestart[<<cx, cz>>]]
       /\ UNCHANGED <<heap, table, thr, gen, early, col, world_dat, view_distance, terrain, now, written>>

GetBlockAct(x, y, z, io, draw) ==
    \E r \in {WorldGetBlock(chunks, disk, x, y, z, Env(io, draw))} :
       /\ IoAllowed(io)
       /\ chunks' = r.chunks
       /\ disk' = r.disk
       /\ CountFailure(io, r.failed)
       /\ Touch(IF MIN_HEIGHT <= y /\ y < MAX_HEIGHT THEN {<<Shr4(x), Shr4(z)>>} ELSE {})
       /\ lastOp' = [op |-> "get_block", x |-> x, y |-> y, z |-> z, result |-> r.result]
       /\ UNCHANGED <<heap, table, thr, gen, early, col, world_dat, view_distance, terrain, now, written>>

SetBlockAct(x, y, z, id, io, draw) ==
    \E r \in {WorldSetBlock(chunks, disk, x, y, z, id, Env(io, draw))} :
       /\ IoAllowed(io)
       /\ chunks' = r.chunks
       /\ disk' = r.disk
       /\ CountFailure(io, r.failed)
       /\ Touch(IF MIN_HEIGHT <= y /\ y < MAX_HEIGHT THEN {<<Shr4(x), Shr4(z)>>} ELSE {})
       /\ written' = IF r.result THEN [written EXCEPT ![<<x, y, z>>] = id] ELSE written
       /\ lastOp' = [op |-> "set_block", x |-> x, y |-> y, z |-> z, id |-> id,
                     result |-> r.result]
       /\ UNCHANGED <<heap, table, thr, gen, early, col, world_dat, view_distance, terrain, now>>

GenerateChunkAct(cx, cz, io, draw) ==
    \E r \in {WorldGenerateChunk(chunks, disk, cx, cz, Env(io, draw))} :
       /\ IoAllowed(io)
       /\ chunks' = r.chunks
       /\ disk' = r.disk
       /\ CountFailure(io, r.failed)
       /\ Touch({<<cx, cz>>})
       /\ lastOp' = [op |-> "generate_chunk", cx |-> cx, cz |-> cz,
                     inserted |-> r.inserted]
       /\ UNCHANGED <<heap, table, thr, gen, early, col, world_dat, view_distance, terrain, now, written>>

SaveAllAct(io) ==
    \E r \in {SaveAll(chunks, disk, world_dat, io)} :
       /\ IoAllowed(io)
       /\ chunks' = r.chunks
       /\ disk' = r.disk
       /\ world_dat' = r.world_dat
       /\ CountFailure(io, r.failed)
       /\ lastOp' = [op |-> "save_all", failed |-> r.failed, log |-> r.log,
                     dirty |-> {<<chunks[i].x, chunks[i].z>> :
                                  i \in {j \in 1..Len(chunks) : chunks[j].modified}}]
       /\ UNCHANGED <<heap, table, thr, gen, early, col, view_distance, terrain, now, written, preRestart>>

\* the process ends and a new WorldEngine is constructed on the same directory
Restart(io) ==
    \E w \in {LoadWorldData(world_dat, io)} :
       /\ IoAllowed(io)
       /\ lastOp.op # "restart"
       /\ chunks' = <<>>
       /\ world_dat' = w.world_dat
       /\ CountFailure(io, w.failed)
       /\ preRestart' = [c \in DOMAIN preRestart |->
                           LET i == IndexOf(chunks, c[1], c[2])
                           IN IF i # 0 /\ ~chunks[i].modified THEN Some(chunks[i]) ELSE None]
       /\ written' = [p \in DOMAIN written |-> -1]
       /\ lastOp' = [op |-> "restart"]
       /\ UNCHANGED <<heap, table, thr, gen, early, col, disk, view_distance, terrain, now>>

\* a second passes
Tick ==
    /\ now < MaxTime
    /\ now' = now + 1
    /\ lastOp' = [op |-> "tick"]
    /\ UNCHANGED <<heap, table, thr, gen, early, col, chunks, disk, world_dat, view_distance, terrain, io_failures,
                   written, preRestart>>

Next ==
    \/ \E c \in Coords, generate \in BOOLEAN, io \in WorldIo, draw \in WorldDraws :
          GetChunkAct(c[1], c[2], generate, io, draw)
    \/ \E x \in WXIn, y \in WYIn, z \in WZIn, io \in WorldIo, draw \in WorldDraws :
          GetBlockAct(x, y, z, io, draw)
    \/ \E x \in WXIn, y \in WYIn, z \in WZIn, id \in BlockIds, io \in WorldIo,
          draw \in WorldDraws :
          SetBlockAct(x, y, z, id, io, draw)
    \/ \E c \in Coords, io \in WorldIo, draw \in WorldDraws :
          GenerateChunkAct(c[1], c[2], io, draw)
    \/ \E io \in WorldIo : SaveAllAct(io)
    \/ \E io \in WorldIo : Restart(io)

Spec == Init /\ [][Next]_vars

----------------------------------------------------------------------------
(* SpecChunk: one Chunk object driven through Chunk.set_block *)

XIn == {5, 16}
ZIn == {5, -1}
YIn == {-65, -64, -1, 0, 15, 255, 256, 384}

WorldIdle ==
    /\ chunks = <<>>
    /\ disk = <<>>
    /\ world_dat = "none"
    /\ view_distance = 0
    /\ terrain = <<>>
    /\ now = 0
    /\ io_failures = 0
    /\ written = <<>>
    /\ preRestart = <<>>

InitChunk ==
    /\ col = NewChunk(0, 0, 0)
    /\ gen = <<>>
    /\ early = {}
    /\ heap = <<>> /\ table = <<>> /\ thr = <<>>
    /\ lastOp = [op |-> "new"]
    /\ WorldIdle

ChunkSetBlockAct(x, y, z, id) ==
    \E r \in {ChunkSetBlock(col, x, y, z, id)} :
       /\ col' = r.chunk
       /\ lastOp' = [op |-> "Chunk.set_block", x |-> x, y |-> y, z |-> z,
                     id |-> id, result |-> r.result]
       /\ UNCHANGED <<heap, table, thr, chunks, disk, world_dat, view_distance, terrain, now,
                      io_failures, written, preRestart, gen, early>>

\* Chunk.from_data(col.to_data())
ChunkRoundTripAct ==
    \E r \in {FromData(ToData(col), now)} :
       /\ lastOp' = [op |-> "Chunk.from_data",
                     ret |-> IF r.ok THEN Some(r.value) ELSE None]
       /\ UNCHANGED <<heap, table, thr, col, chunks, disk, world_dat, view_distance, terrain, now,
                      io_failures, written, preRestart, gen, early>>

NextChunk ==
    \/ \E x \in XIn, y \in YIn, z \in ZIn, id \in BlockIds : ChunkSetBlockAct(x, y, z, id)
    \/ ChunkRoundTripAct

SpecChunk == InitChunk /\ [][NextChunk]_vars

----------------------------------------------------------------------------
(* SpecEvict: a WorldEngine whose table is filled until eviction runs *)

\* view_distance 0 gives max_chunks = 0: generate_chunk, which runs no capacity
\* check, fills the table, and every get_chunk miss runs _unload_oldest_chunks
EvictCoords == {<<k, 7>> : k \in 1..(MaxResident + 1)}

\* the coordinates that callers ask for again while they are resident
TouchCoords == {<<1, 7>>, <<2, 7>>}

Resident(c) == IndexOf(chunks, c[1], c[2]) # 0

\* callers ask for new coordinates in ascending order of x
NextCoord(c) ==
    /\ c \in EvictCoords
    /\ ~Resident(c)
    /\ \A d \in EvictCoords : d[1] < c[1] => Resident(d)

InitEvict ==
    /\ col = NewChunk(0, 0, 0)
    /\ chunks = <<>>
    /\ disk = [c \in EvictCoords |-> NoFile]
    /\ world_dat = "ok"
    /\ view_distance = 0
    /\ terrain \in TerrainField(EvictCoords)
    /\ now = 0
    /\ io_failures = 0
    /\ written = <<>>
    /\ preRestart = [c \in EvictCoords |-> None]
    /\ gen = <<>>
    /\ early = {}
    /\ heap = <<>> /\ table = <<>> /\ thr = <<>>
    /\ lastOp = [op |-> "new"]

\* the engine is followed up to its first eviction
BeforeFirstEviction ==
    /\ io_failures = 0
    /\ \A c \in EvictCoords : disk[c] = NoFile

NextEvict ==
    /\ BeforeFirstEviction
    /\ \/ \E c \in EvictCoords, draw \in WorldDraws :
             /\ NextCoord(c)
             /\ Len(chunks) < MaxResident
             /\ GenerateChunkAct(c[1], c[2], "ok", draw)
       \/ \E c \in TouchCoords, draw \in WorldDraws :
             /\ Resident(c)
             /\ GetChunkAct(c[1], c[2], TRUE, "ok", draw)
       \/ \E c \in EvictCoords, io \in IoModes, draw \in WorldDraws :
             /\ NextCoord(c)
             /\ GetChunkAct(c[1], c[2], TRUE, io, draw)
       \/ Tick

SpecEvict == InitEvict /\ [][NextEvict]_vars

----------------------------------------------------------------------------
(* SpecPopulate: a WorldEngine whose Chunk (0, 0) is populated *)

PopTarget == <<0, 0>>

\* callers generate the target first and then its 8 neighbours
PopOrder ==
    <<PopTarget>> \o SelectSeq(Surrounding(PopTarget[1], PopTarget[2], 1),
                               LAMBDA c : c # PopTarget)

PopCoords == {PopOrder[k] : k \in 1..Len(PopOrder)}

\* noise values of a forest at height 64 and of a sea floor at height 47
PopSamples ==
    {[height |-> 64, temp |-> 40, humidity |-> 40],
     [height |-> 47, temp |-> 10, humidity |-> 40]}

\* outcomes of the calls on self.rng during one pass: nothing is placed, an oak
\* grows on the tracked line, an ore vein reaches the tracked stone at y = 15
PopDraws ==
    {[tree_roll |-> 50, birch_roll |-> 50, trunk |-> 4, veg_roll |-> 50,
      flower_roll |-> 50, vein |-> <<>>, ore |-> 15],
     [tree_roll |-> 0, birch_roll |-> 50, trunk |-> 4, veg_roll |-> 0,
      flower_roll |-> 50, vein |-> <<>>, ore |-> 15],
     [tree_roll |-> 50, birch_roll |-> 50, trunk |-> 4, veg_roll |-> 50,
      flower_roll |-> 50, vein |-> <<<<5, 15, 5>>>>, ore |-> 15]}

\* the Chunk of c and its 8 neighbours are resident and generated
SurroundingsReady(c) ==
    \A k \in 1..9 :
        LET n == Surrounding(c[1], c[2], 1)[k]
        IN /\ IndexOf(chunks, n[1], n[2]) # 0
           /\ chunks[IndexOf(chunks, n[1], n[2])].generated

ResidentChunk(c) ==
    IF IndexOf(chunks, c[1], c[2]) # 0 THEN Some(chunks[IndexOf(chunks, c[1], c[2])])
    ELSE None

InitPopulate ==
    /\ col = NewChunk(0, 0, 0)
    /\ chunks = <<>>
    /\ disk = [c \in PopCoords |-> NoFile]
    /\ world_dat = "ok"
    /\ view_distance = 1
    /\ terrain \in {[c \in PopCoords |-> s] : s \in PopSamples}
    /\ now = 0
    /\ io_failures = 0
    /\ written = <<>>
    /\ preRestart = [c \in PopCoords |-> None]
    /\ gen = <<>>
    /\ early = {}
    /\ heap = <<>> /\ table = <<>> /\ thr = <<>>
    /\ lastOp = [op |-> "new"]

\* WorldEngine.populate_chunk(cx, cz)
PopulateChunkAct(cx, cz, pd, draw) ==
    \E r \in {WorldPopulateChunk(chunks, disk, cx, cz, pd, Env("ok", draw))} :
       /\ chunks' = r.chunks
       /\ disk' = r.disk
       /\ early' = IF SurroundingsReady(<<cx, cz>>) THEN early ELSE early \cup {<<cx, cz>>}
       /\ lastOp' = [op |-> "populate_chunk", cx |-> cx, cz |-> cz,
                     ready |-> SurroundingsReady(<<cx, cz>>),
                     was_early |-> <<cx, cz>> \in early,
                     before |-> ResidentChunk(<<cx, cz>>),
                     ret |-> r.ret, calls |-> r.calls, passed |-> r.passed]
       /\ UNCHANGED <<heap, table, thr, col, world_dat, view_distance, terrain, now, io_failures,
                      written, preRestart, gen>>

\* Chunk.populate(generator, world) called on the resident Chunk of (cx, cz)
ChunkPopulateAct(cx, cz, pd, draw) ==
    /\ Resident(<<cx, cz>>)
    /\ \E p \in {ChunkPopulate(chunks[IndexOf(chunks, cx, cz)], TRUE, chunks, disk, pd,
                                Env("ok", draw))} :
          /\ chunks' = p.chunks
          /\ disk' = p.disk
          /\ lastOp' = [op |-> "Chunk.populate", cx |-> cx, cz |-> cz,
                        ready |-> SurroundingsReady(<<cx, cz>>),
                        was_early |-> <<cx, cz>> \in early,
                        before |-> ResidentChunk(<<cx, cz>>),
                        ret |-> Some(p.chunk), calls |-> p.calls, passed |-> p.passed]
          /\ UNCHANGED <<heap, table, thr, col, world_dat, view_distance, terrain, now, io_failures,
                         written, preRestart, gen, early>>

\* Chunk.populate(generator, world) called on the free-standing Chunk col
ColPopulateAct(pd, draw) ==
    \E p \in {ChunkPopulate(col, FALSE, chunks, disk, pd, Env("ok", draw))} :
       /\ col' = p.chunk
       /\ chunks' = p.chunks
       /\ disk' = p.disk
       /\ lastOp' = [op |-> "Chunk.populate", cx |-> col.x, cz |-> col.z,
                     ready |-> SurroundingsReady(<<col.x, col.z>>),
                     was_early |-> FALSE,
                     before |-> Some(col),
                     ret |-> Some(p.chunk), calls |-> p.calls, passed |-> p.passed]
       /\ UNCHANGED <<heap, table, thr, world_dat, view_distance, terrain, now, io_failures,
                      written, preRestart, gen, early>>

NextPopulate ==
    \/ \E draw \in WorldDraws :
          /\ Len(chunks) < Len(PopOrder)
          /\ GenerateChunkAct(PopOrder[Len(chunks) + 1][1], PopOrder[Len(chunks) + 1][2],
                              "ok", draw)
    \/ \E pd \in PopDraws, draw \in WorldDraws :
          PopulateChunkAct(PopTarget[1], PopTarget[2], pd, draw)
    \/ \E pd \in PopDraws, draw \in WorldDraws :
          ChunkPopulateAct(PopTarget[1], PopTarget[2], pd, draw)
    \/ \E pd \in PopDraws, draw \in WorldDraws : ColPopulateAct(pd, draw)
    \/ Tick

SpecPopulate == InitPopulate /\ [][NextPopulate]_vars

----------------------------------------------------------------------------
(* SpecGen: two runs of a TerrainGenerator built from the same seed *)

Runs == {1, 2}
GenCoords == {<<0, 0>>, <<1, 0>>}

\* the number of columns whose rng outcomes are followed
MaxColumns == 3

\* noise values of a hill at height 68 and of a sea floor at height 47
GenSamples ==
    {[height |-> 68, temp |-> 10, humidity |-> 40],
     [height |-> 47, temp |-> 10, humidity |-> 40]}

\* outcomes of the calls on self.rng while one column is filled
GenDraws ==
    {[d |-> 3, bedrock |-> TRUE, gravel |-> FALSE, ore |-> 2],
     [d |-> 5, bedrock |-> FALSE, gravel |-> TRUE, ore |-> 2]}

\* np.random.RandomState(seed): the outcomes are a fixed sequence, and a generator
\* that has filled pos columns draws the outcomes of position pos + 1 next
RandomState == [1..MaxColumns -> GenDraws]

\* chunk.generate(generator) on a generator at position pos of its stream;
\* returns [chunk, rng]
GenerateWith(c, ter, stream, pos) ==
    [chunk |-> ChunkGenerate(c, ter, stream[pos + 1]),
     rng |-> IF c.generated THEN pos ELSE pos + 1]

InitGen ==
    /\ col = NewChunk(0, 0, 0)
    /\ chunks = <<>>
    /\ disk = <<>>
    /\ world_dat = "none"
    /\ view_distance = 0
    /\ terrain \in [GenCoords -> GenSamples]
    /\ now = 0
    /\ io_failures = 0
    /\ written = <<>>
    /\ preRestart = <<>>
    /\ \E stream \in RandomState :
          gen = [stream |-> stream,
                 rng |-> [r \in Runs |-> 0],
                 cols |-> [r \in Runs |-> [c \in GenCoords |-> NewChunk(c[1], c[2], 0)]]]
    /\ early = {}
    /\ heap = <<>> /\ table = <<>> /\ thr = <<>>
    /\ lastOp = [op |-> "new"]

\* in run r, the Chunk of coordinate c is handed to the generator
ChunkGenerateAct(r, c) ==
    \E g \in {GenerateWith(gen.cols[r][c], terrain[c], gen.stream, gen.rng[r])} :
       /\ gen' = [stream |-> gen.stream,
                  rng |-> [q \in Runs |-> IF q = r THEN g.rng ELSE gen.rng[q]],
                  cols |-> [q \in Runs |-> [d \in GenCoords |->
                               IF q = r /\ d = c THEN g.chunk ELSE gen.cols[q][d]]]]
       /\ lastOp' = [op |-> "Chunk.generate", run |-> r, cx |-> c[1], cz |-> c[2],
                     was_generated |-> gen.cols[r][c].generated]
       /\ UNCHANGED <<heap, table, thr, col, chunks, disk, world_dat, view_distance, terrain, now,
                      io_failures, written, preRestart, early>>

NextGen == \E r \in Runs, c \in GenCoords : ChunkGenerateAct(r, c)

SpecGen == InitGen /\ [][NextGen]_vars

----------------------------------------------------------------------------
(* SpecPath: the file paths of chunk coordinates *)

\* int32 chunk coordinates around the region borders, and the extremes
PathXIn == {-2147483647 - 1, -33, -32, -1, 0, 1, 31, 32, 2147483647}
PathZIn == {-32, -1, 0, 11, 31, 32}

InitPath ==
    /\ col = NewChunk(0, 0, 0)
    /\ gen = <<>>
    /\ early = {}
    /\ heap = <<>> /\ table = <<>> /\ thr = <<>>
    /\ lastOp = [op |-> "new"]
    /\ WorldIdle

\* one call of _get_chunk_path; prev keeps the call before it
GetChunkPathAct(cx, cz) ==
    /\ lastOp' = [op |-> "_get_chunk_path", cx |-> cx, cz |-> cz,
                  ret |-> GetChunkPath(cx, cz),
                  prev |-> IF lastOp.op = "_get_chunk_path"
                           THEN [some |-> TRUE, cx |-> lastOp.cx, cz |-> lastOp.cz,
                                 path |-> lastOp.ret.path]
                           ELSE [some |-> FALSE]]
    /\ UNCHANGED <<heap, table, thr, col, chunks, disk, world_dat, view_distance, terrain, now,
                   io_failures, written, preRestart, gen, early>>

NextPath == \E cx \in PathXIn, cz \in PathZIn : GetChunkPathAct(cx, cz)

SpecPath == InitPath /\ [][NextPath]_vars

----------------------------------------------------------------------------
(* SpecHit: a WorldEngine that is read while time passes *)

NextHit ==
    \/ \E c \in Coords, generate \in BOOLEAN, draw \in WorldDraws :
          GetChunkAct(c[1], c[2], generate, "ok", draw)
    \/ \E x \in WXIn, y \in WYIn, z \in WZIn, draw \in WorldDraws :
          GetBlockAct(x, y, z, "ok", draw)
    \/ \E c \in Coords, draw \in WorldDraws : GenerateChunkAct(c[1], c[2], "ok", draw)
    \/ Tick

SpecHit == Init /\ [][NextHit]_vars

----------------------------------------------------------------------------
(* Properties *)

\* C1: after each Chunk.set_block call, the height-map entry of every line that
\* holds a non-air block is the y of the topmost non-air block of that line.
C1_HeightMapIsTop ==
    \A l \in SampleLines :
        NonAirYs(col, l[1], l[2]) # {} => col.height_map[l] = TopY(col, l[1], l[2])

\* C2: a line that holds no non-air block (in a fresh Chunk, or after its last
\* non-air block was cleared) has the height-map entry MIN_HEIGHT.
C2_EmptyLineIsMinHeight ==
    \A l \in SampleLines :
        NonAirYs(col, l[1], l[2]) = {} => col.height_map[l] = MIN_HEIGHT

\* the engine as a caller that meets no file failure sees it
ReadBack(x, y, z) ==
    WorldGetBlock(chunks, disk, x, y, z, Env("ok", CHOOSE d \in WorldDraws : TRUE)).result

OwnerGenerated(x, z) ==
    LET i == IndexOf(chunks, Shr4(x), Shr4(z))
    IN i # 0 /\ chunks[i].generated

\* C3: with a capacity above zero, WorldEngine.set_block at any y in
\* [MIN_HEIGHT, MAX_HEIGHT) returns true, a get_block that follows returns the
\* id written, and the owning Chunk is resident with generated = true.
C3_SetThenGet ==
    (/\ lastOp.op = "set_block"
     /\ view_distance > 0
     /\ MIN_HEIGHT <= lastOp.y /\ lastOp.y < MAX_HEIGHT)
    => /\ lastOp.result
       /\ ReadBack(lastOp.x, lastOp.y, lastOp.z) = lastOp.id
       /\ OwnerGenerated(lastOp.x, lastOp.z)

\* C4: while no file operation has failed, a get_block at a position returns the
\* last value that a set_block call accepted there.
C4_NoLostWrite ==
    io_failures = 0 =>
        \A p \in DOMAIN written :
            written[p] # -1 => ReadBack(p[1], p[2], p[3]) = written[p]

Evicting == lastOp.op = "get_chunk" /\ lastOp.evN > 0

\* C5: every Chunk that eviction removes while its modified flag is set has, at
\* the moment it leaves the table, a file that holds its current contents (stated
\* for the Chunks other than the one whose insertion started the eviction).
C5_EvictedDirtyPersisted ==
    Evicting =>
        \A i \in 1..Len(lastOp.evicted) :
            (/\ lastOp.evicted[i].chunk.modified
             /\ lastOp.evicted[i].chunk.x # lastOp.cx)
            => lastOp.evicted[i].file = File(ToData(lastOp.evicted[i].chunk))

\* C6 (as the code has it): an eviction that runs on a table of N Chunks removes
\* exactly max(1, N div 10) of them.
C6_EvictsFloorTenth ==
    Evicting =>
        /\ Len(lastOp.evicted) = (IF lastOp.evN \div 10 > 1 THEN lastOp.evN \div 10 ELSE 1)
        /\ Len(chunks) = lastOp.evN - Len(lastOp.evicted)

\* C6 (as the specification has it): an eviction that runs on a table of N
\* Chunks removes exactly ceil(N / 10) of them.
C6_EvictsCeilTenth ==
    Evicting =>
        /\ Len(lastOp.evicted) = (lastOp.evN + 9) \div 10
        /\ Len(chunks) = lastOp.evN - Len(lastOp.evicted)

C6_Witness == Evicting /\ lastOp.evN >= 20 /\ Len(lastOp.evicted) = 2

\* C7: after an eviction every removed Chunk has a last_used that is at most the
\* last_used of every Chunk left in the table, and a get_chunk hit sets the
\* last_used of its Chunk to the current time.
C7_EvictsLeastRecentlyUsed ==
    /\ Evicting =>
          \A i \in 1..Len(lastOp.evicted) : \A k \in lastOp.evKept :
              lastOp.evicted[i].chunk.last_used <= k
    /\ (lastOp.op = "get_chunk" /\ lastOp.hit) =>
          /\ Resident(<<lastOp.cx, lastOp.cz>>)
          /\ chunks[IndexOf(chunks, lastOp.cx, lastOp.cz)].last_used = now

\* an eviction that passes over an older-inserted Chunk because a hit refreshed it
C7_Witness ==
    /\ Evicting
    /\ lastOp.evN >= 3
    /\ lastOp.evicted[1].chunk.x = 2
    /\ lastOp.evicted[1].chunk.last_used = 0
    /\ 1 \in lastOp.evKept
    /\ Resident(<<1, 7>>)

\* C8: after get_chunk, get_block, set_block or generate_chunk returns, the table
\* holds at most max_chunks Chunks.
C8_CapacityBound ==
    lastOp.op \in {"get_chunk", "get_block", "set_block", "generate_chunk"}
    => Len(chunks) <= MaxChunks(view_distance)

ChunkWrites(log) == {k \in 1..Len(log) : log[k].file = "chunk"}

\* C9: after a save_all in which no file operation failed, every resident Chunk
\* has modified = false, the file of every Chunk that was dirty holds its
\* contents, and world.dat is written after the Chunk files.
C9_SaveAllPersists ==
    (lastOp.op = "save_all" /\ ~lastOp.failed)
    => /\ \A i \in 1..Len(chunks) : ~chunks[i].modified
       /\ \A c \in lastOp.dirty :
             /\ Resident(c)
             /\ disk[c] = File(ToData(chunks[IndexOf(chunks, c[1], c[2])]))
       /\ lastOp.log[Len(lastOp.log)].file = "world"
       /\ ChunkWrites(lastOp.log) = 1..(Len(lastOp.log) - 1)
       /\ {<<lastOp.log[k].x, lastOp.log[k].z>> : k \in ChunkWrites(lastOp.log)} = lastOp.dirty
       /\ world_dat = "ok"

C9_Witness ==
    /\ lastOp.op = "save_all" /\ ~lastOp.failed
    /\ Cardinality(lastOp.dirty) = 2
    /\ written[<<5, 64, 5>>] # -1

\* C10: the first get_chunk after a restart for a coordinate whose Chunk was
\* resident and saved at the restart, when the environment fails no file
\* operation, returns a Chunk loaded from disk and not generated, with the
\* blocks, height map and biomes it had before the restart and modified = false.
C10_RestartReload ==
    (lastOp.op = "get_chunk" /\ lastOp.pre.some /\ lastOp.io = "ok")
    => /\ lastOp.ret.some
       /\ lastOp.loaded /\ ~lastOp.generated
       /\ SameContents(lastOp.ret.chunk, lastOp.pre.chunk)
       /\ lastOp.ret.chunk.generated = lastOp.pre.chunk.generated
       /\ ~lastOp.ret.chunk.modified

\* C11: for every Chunk that set_block calls can reach, Chunk.from_data applied to
\* its to_data returns a Chunk with the same coordinates, the same generated and
\* populated flags, the same block at every position, the same biome grid and the
\* same height-map grid.
C11_RoundTrip ==
    lastOp.op = "Chunk.from_data"
    => /\ lastOp.ret.some
       /\ lastOp.ret.chunk.x = col.x /\ lastOp.ret.chunk.z = col.z
       /\ lastOp.ret.chunk.generated = col.generated
       /\ lastOp.ret.chunk.populated = col.populated
       /\ SameContents(lastOp.ret.chunk, col)

\* C12: a populate call on a Chunk that is not yet populated, made while the Chunk
\* or one of its 8 neighbours is absent or not generated, leaves populated = false
\* and changes no block; and populated turns true only in a call made while the
\* Chunk and its 8 neighbours were generated.
C12_PopulationGated ==
    (lastOp.op \in {"populate_chunk", "Chunk.populate"} /\ lastOp.before.some
     /\ ~lastOp.before.chunk.populated)
    => /\ ~lastOp.ready =>
             /\ ~lastOp.ret.chunk.populated
             /\ SameContents(lastOp.ret.chunk, lastOp.before.chunk)
       /\ lastOp.ret.chunk.populated => lastOp.ready /\ lastOp.passed

\* C13: a populate_chunk call for a coordinate that an earlier call named too
\* early, made once the Chunk and its 8 neighbours are generated, runs the
\* population pass and leaves populated = true.
C13_LatePopulateSucceeds ==
    (lastOp.op = "populate_chunk" /\ lastOp.was_early /\ lastOp.ready)
    => /\ lastOp.passed
       /\ lastOp.calls = 9
       /\ lastOp.ret.some /\ lastOp.ret.chunk.populated

\* C14: Chunk.populate on a Chunk whose populated flag is true or whose generated
\* flag is false makes no call on the generator (no neighbour is asked for) and
\* leaves the Chunk, with its blocks, height map and flags, as it was.
C14_PopulateNoOp ==
    (lastOp.op = "Chunk.populate"
     /\ (lastOp.before.chunk.populated \/ ~lastOp.before.chunk.generated))
    => /\ lastOp.calls = 0 /\ ~lastOp.passed
       /\ lastOp.ret.chunk = lastOp.before.chunk

\* both cases: a resident Chunk that is populated, after a pass with all neighbours
\* that grew a tree
C14_Witness ==
    /\ lastOp.op = "Chunk.populate"
    /\ lastOp.before.chunk.populated
    /\ lastOp.ready
    /\ ChunkGetBlock(lastOp.before.chunk, 5, 64, 5) = 5

\* C15: the first Chunk.generate call on a Chunk runs the terrain pass (bedrock
\* lies at MIN_HEIGHT, one column of rng outcomes is used up) and sets generated
\* and modified; a later call on the same Chunk changes no block, grid or flag
\* and draws nothing from the generator; generated never returns to false.
C15_GenerateIdempotent ==
    [][/\ \A r \in Runs, c \in GenCoords :
             gen.cols[r][c].generated => gen'.cols[r][c].generated
       /\ lastOp'.op = "Chunk.generate" =>
             IF gen.cols[lastOp'.run][<<lastOp'.cx, lastOp'.cz>>].generated
             THEN /\ gen'.cols = gen.cols
                  /\ gen'.rng = gen.rng
             ELSE /\ gen'.cols[lastOp'.run][<<lastOp'.cx, lastOp'.cz>>].generated
                  /\ gen'.cols[lastOp'.run][<<lastOp'.cx, lastOp'.cz>>].modified
                  /\ ChunkGetBlock(gen'.cols[lastOp'.run][<<lastOp'.cx, lastOp'.cz>>],
                                   5, MIN_HEIGHT, 5) = 1
                  /\ gen'.rng[lastOp'.run] = gen.rng[lastOp'.run] + 1]_vars

\* a generate call on a Chunk that was generated before
C15_Witness ==
    /\ lastOp.op = "Chunk.generate"
    /\ lastOp.was_generated
    /\ gen.rng[lastOp.run] = 2

\* two runs hold the same block at every tracked position of coordinate c
SameBlocks(a, b) ==
    \A l \in SampleLines : \A y \in TrackedYs :
        ChunkGetBlock(a, l[1], y, l[2]) = ChunkGetBlock(b, l[1], y, l[2])

BothGenerated(c) == gen.cols[1][c].generated /\ gen.cols[2][c].generated

\* C16: two runs with the same seed that generated the same coordinate hold the
\* same blocks for it, whatever each run generated before.
C16_BlocksDeterministic ==
    \A c \in GenCoords : BothGenerated(c) => SameBlocks(gen.cols[1][c], gen.cols[2][c])

\* C17: two runs with the same seed that generated the same coordinate hold the
\* same height-map grid and the same biome grid for it, whatever each run
\* generated before and whatever its generator has drawn.
C17_GridsDeterministic ==
    \A c \in GenCoords :
        BothGenerated(c) =>
            /\ gen.cols[1][c].height_map = gen.cols[2][c].height_map
            /\ gen.cols[1][c].biomes = gen.cols[2][c].biomes

\* the two runs generated a coordinate from different rng states: its blocks differ
C17_Witness ==
    \E c \in GenCoords :
        /\ BothGenerated(c)
        /\ ~SameBlocks(gen.cols[1][c], gen.cols[2][c])

\* C18: for every chunk coordinate the local parts lie in 0..31 and
\* region * 32 + local gives the coordinate back; two calls return the same path
\* exactly when they name the same coordinate.
C18_PathBijection ==
    lastOp.op = "_get_chunk_path"
    => /\ lastOp.ret.local_x \in 0..31 /\ lastOp.ret.local_z \in 0..31
       /\ lastOp.cx = lastOp.ret.region_x * 32 + lastOp.ret.local_x
       /\ lastOp.cz = lastOp.ret.region_z * 32 + lastOp.ret.local_z
       /\ lastOp.prev.some =>
             ((lastOp.prev.path = lastOp.ret.path)
              <=> (lastOp.prev.cx = lastOp.cx /\ lastOp.prev.cz = lastOp.cz))

\* two negative coordinates of neighbouring regions whose local parts are the same
C18_Witness ==
    /\ lastOp.op = "_get_chunk_path"
    /\ lastOp.prev.some
    /\ lastOp.cx = -1 /\ lastOp.prev.cx = 31 /\ lastOp.cz = lastOp.prev.cz
    /\ lastOp.ret.local_x = 31 /\ lastOp.ret.region_x = -1

\* C19: a get_chunk call for a coordinate that is in the table is a hit: it
\* returns the Chunk the table holds, with last_used set to the current time, and
\* the table holds that Chunk afterwards; a get_chunk call that follows a
\* get_chunk call for the same coordinate returns the Chunk the first call
\* returned, unless that Chunk has left the table.
C19_HitReturnsResident ==
    [][lastOp'.op = "get_chunk" =>
          /\ IndexOf(chunks, lastOp'.cx, lastOp'.cz) # 0 =>
                /\ lastOp'.hit /\ ~lastOp'.loaded /\ ~lastOp'.generated
                /\ lastOp'.ret =
                      Some([chunks[IndexOf(chunks, lastOp'.cx, lastOp'.cz)]
                               EXCEPT !.last_used = now])
                /\ IndexOf(chunks', lastOp'.cx, lastOp'.cz) # 0
                /\ chunks'[IndexOf(chunks', lastOp'.cx, lastOp'.cz)] = lastOp'.ret.chunk
                /\ Len(chunks') = Len(chunks)
          /\ (/\ lastOp.op = "get_chunk"
              /\ lastOp.cx = lastOp'.cx /\ lastOp.cz = lastOp'.cz
              /\ lastOp.ret.some
              /\ IndexOf(chunks, lastOp'.cx, lastOp'.cz) # 0) =>
                /\ lastOp'.hit
                /\ lastOp'.ret = Some([lastOp.ret.chunk EXCEPT !.last_used = now])]_vars

\* a hit at time 1 on a table that holds a Chunk last used at time 0
C19_Witness ==
    /\ lastOp.op = "get_chunk" /\ lastOp.hit
    /\ now = 1
    /\ lastOp.ret.chunk.last_used = 1
    /\ \E i \in 1..Len(chunks) : chunks[i].last_used = 0

----------------------------------------------------------------------------
(* SpecDir: a WorldEngine whose region directory may fail to be created *)

DirIo == {"ok", "dfail"}       \* "dfail": os.makedirs(region_dir) raises OSError

\* _get_chunk_path: os.makedirs(region_dir, exist_ok=True) stands outside any try
MakedirsRaises(io) == io = "dfail"

\* get_chunk: a miss calls _load_chunk, whose first statement is _get_chunk_path
GetChunkRaises(tb, cx, cz, io) == MakedirsRaises(io) /\ IndexOf(tb, cx, cz) = 0

\* save_all: _save_chunk of the first modified Chunk calls _get_chunk_path before
\* its try
SaveAllRaises(tb, io) == MakedirsRaises(io) /\ \E i \in 1..Len(tb) : tb[i].modified

\* the exception leaves the operation: nothing was changed before it was raised
RaiseAct(name, io) ==
    /\ IoAllowed(io)
    /\ CountFailure(io, TRUE)
    /\ lastOp' = [op |-> "raise", from |-> name]
    /\ UNCHANGED <<heap, table, thr, gen, early, col, chunks, disk, world_dat, view_distance, terrain,
                   now, written, preRestart>>

GetChunkDirAct(cx, cz, generate, io, draw) ==
    IF GetChunkRaises(chunks, cx, cz, io) THEN RaiseAct("get_chunk", io)
    ELSE GetChunkAct(cx, cz, generate, io, draw)

GetBlockDirAct(x, y, z, io, draw) ==
    IF MIN_HEIGHT <= y /\ y < MAX_HEIGHT /\ GetChunkRaises(chunks, Shr4(x), Shr4(z), io)
    THEN RaiseAct("get_block", io)
    ELSE GetBlockAct(x, y, z, io, draw)

SetBlockDirAct(x, y, z, id, io, draw) ==
    IF MIN_HEIGHT <= y /\ y < MAX_HEIGHT /\ GetChunkRaises(chunks, Shr4(x), Shr4(z), io)
    THEN RaiseAct("set_block", io)
    ELSE SetBlockAct(x, y, z, id, io, draw)

SaveAllDirAct(io) ==
    IF SaveAllRaises(chunks, io) THEN RaiseAct("save_all", io)
    ELSE SaveAllAct(io)

NextDir ==
    \/ \E c \in Coords, generate \in BOOLEAN, io \in DirIo, draw \in WorldDraws :
          GetChunkDirAct(c[1], c[2], generate, io, draw)
    \/ \E x \in WXIn, y \in WYIn, z \in WZIn, io \in DirIo, draw \in WorldDraws :
          GetBlockDirAct(x, y, z, io, draw)
    \/ \E x \in WXIn, y \in WYIn, z \in WZIn, id \in BlockIds, io \in DirIo,
          draw \in WorldDraws :
          SetBlockDirAct(x, y, z, id, io, draw)
    \/ \E io \in DirIo : SaveAllDirAct(io)

SpecDir == Init /\ [][NextDir]_vars

----------------------------------------------------------------------------
(* SpecSurround: the neighbour check on a world that is saved and reopened *)

SurRadius == {0, 1}

\* WorldEngine.are_surrounding_chunks_generated(cx, cz, radius)
AreSurroundingAct(cx, cz, radius, draw) ==
    \E r \in {AreSurroundingChunksGenerated(chunks, disk, cx, cz, radius, Env("ok", draw))} :
       /\ chunks' = r.chunks
       /\ disk' = r.disk
       /\ Touch({Surrounding(cx, cz, radius)[k] : k \in 1..r.calls})
       /\ lastOp' = [op |-> "are_surrounding_chunks_generated", cx |-> cx, cz |-> cz,
                     radius |-> radius, result |-> r.result, calls |-> r.calls]
       /\ UNCHANGED <<heap, table, thr, gen, early, col, world_dat, view_distance, terrain, now,
                      io_failures, written>>

NextSurround ==
    \/ \E draw \in WorldDraws :
          /\ Len(chunks) < Len(PopOrder)
          /\ GenerateChunkAct(PopOrder[Len(chunks) + 1][1], PopOrder[Len(chunks) + 1][2],
                              "ok", draw)
    \/ \E radius \in SurRadius, draw \in WorldDraws :
          AreSurroundingAct(PopTarget[1], PopTarget[2], radius, draw)
    \/ SaveAllAct("ok")
    \/ Restart("ok")

SpecSurround == InitPopulate /\ [][NextSurround]_vars

----------------------------------------------------------------------------
(* SpecClean: a WorldEngine without capacity whose saved Chunks are evicted *)

CleanIo == {"ok", "wtrunc"}     \* file outcomes drawn in this specification

InitClean == Init /\ view_distance = 0

NextClean ==
    \/ \E c \in Coords, draw \in WorldDraws : GenerateChunkAct(c[1], c[2], "ok", draw)
    \/ SaveAllAct("ok")
    \/ \E c \in Coords, generate \in BOOLEAN, io \in CleanIo, draw \in WorldDraws :
          GetChunkAct(c[1], c[2], generate, io, draw)
    \/ Tick

SpecClean == InitClean /\ [][NextClean]_vars

----------------------------------------------------------------------------
(* SpecUpdate: a WorldEngine driven by the server's tick loop *)

\* tick numbers handed to update
TickIn == {0, 1, 19, 20, 40, 5999, 6000, 6020, 12000}

\* tick_number % 20 * 60 * 5 == 0 on uint64_t: the operators have the same
\* precedence and associate to the left; the product is at most 19 * 300 and
\* never wraps
AutosaveDue(tick_number) == (((tick_number % 20) * 60) * 5) = 0

\* WorldEngine.update(tick_number); the two _process calls do nothing
UpdateAct(tick_number, io) ==
    \E r \in {IF AutosaveDue(tick_number) THEN SaveAll(chunks, disk, world_dat, io)
              ELSE [chunks |-> chunks, disk |-> disk, world_dat |-> world_dat,
                    failed |-> FALSE, log |-> <<>>]} :
       /\ IoAllowed(io)
       /\ chunks' = r.chunks
       /\ disk' = r.disk
       /\ world_dat' = r.world_dat
       /\ CountFailure(io, r.failed)
       /\ lastOp' = [op |-> "update", tick |-> tick_number,
                     saved |-> Len(r.log) > 0, log |-> r.log]
       /\ UNCHANGED <<heap, table, thr, gen, early, col, view_distance, terrain, now, written, preRestart>>

NextUpdate ==
    \/ \E c \in Coords, draw \in WorldDraws : GenerateChunkAct(c[1], c[2], "ok", draw)
    \/ \E x \in WXIn, y \in WYIn, z \in WZIn, id \in BlockIds, draw \in WorldDraws :
          SetBlockAct(x, y, z, id, "ok", draw)
    \/ \E tick_number \in TickIn : UpdateAct(tick_number, "ok")

SpecUpdate == Init /\ [][NextUpdate]_vars

----------------------------------------------------------------------------
(* SpecPopEvict: population in a WorldEngine without capacity, with a neighbour
   of the target that is on disk and not resident *)

InitPopEvict ==
    /\ col = NewChunk(0, 0, 0)
    /\ chunks = <<>>
    /\ disk = [c \in PopCoords |-> NoFile]
    /\ world_dat = "ok"
    /\ view_distance = 0
    /\ terrain \in {[c \in PopCoords |-> s] : s \in PopSamples}
    /\ now = 0
    /\ io_failures = 0
    /\ written = <<>>
    /\ preRestart = [c \in PopCoords |-> None]
    /\ gen = <<>>
    /\ early = {}
    /\ heap = <<>> /\ table = <<>> /\ thr = <<>>
    /\ lastOp = [op |-> "new"]

NextPopEvict ==
    \/ \E draw \in WorldDraws :
          /\ disk[PopOrder[2]].kind = "none"
          /\ GetChunkAct(PopOrder[2][1], PopOrder[2][2], TRUE, "ok", draw)
    \/ \E draw \in WorldDraws :
          /\ Len(chunks) < Len(PopOrder)
          /\ GenerateChunkAct(PopOrder[Len(chunks) + 1][1], PopOrder[Len(chunks) + 1][2],
                              "ok", draw)
    \/ \E pd \in PopDraws, draw \in WorldDraws :
          PopulateChunkAct(PopTarget[1], PopTarget[2], pd, draw)
    \/ Tick

SpecPopEvict == InitPopEvict /\ [][NextPopEvict]_vars

----------------------------------------------------------------------------
(* SpecThreads: threads that call one WorldEngine. Chunk objects live in heap and
   are named by reference; the table and the threads hold references. A step is
   the code a thread runs between two points where another thread can act on
   what it uses: the lock acquisitions, the statements of _save_chunk, and
   Chunk.set_block, which runs outside both locks. *)

MaxThreads == 2

Threads == 1..MaxThreads

\* the calls a thread may make
ThreadCalls ==
    {[name |-> "get_chunk", cx |-> 0, cz |-> 0, generate |-> TRUE],
     [name |-> "get_chunk", cx |-> 1, cz |-> 0, generate |-> TRUE],
     [name |-> "set_block", x |-> 5, y |-> 64, z |-> 5, id |-> 1],
     [name |-> "save_all"],
     [name |-> "update", tick |-> 20],
     [name |-> "generate_chunk", cx |-> 1, cz |-> 0],
     [name |-> "populate_chunk", cx |-> 0, cz |-> 0]}

IdleThread ==
    [pc |-> "idle", call |-> [name |-> "none"], held |-> <<>>,
     gx |-> 0, gz |-> 0, ggen |-> FALSE, cont |-> "done",
     chunk |-> 0, hit |-> FALSE, fresh |-> FALSE, ok |-> FALSE,
     victims |-> <<>>, todo |-> <<>>, saving |-> 0, data |-> <<>>, after |-> "done"]

\* the reference the table holds for the key (cx, cz); 0 when the key is absent
RefOf(hp, tbl, cx, cz) ==
    IF \E k \in 1..Len(tbl) : hp[tbl[k]].c.x = cx /\ hp[tbl[k]].c.z = cz
    THEN tbl[CHOOSE k \in 1..Len(tbl) : hp[tbl[k]].c.x = cx /\ hp[tbl[k]].c.z = cz]
    ELSE 0

\* the table as the sequence of the Chunks it refers to
TableValues(hp, tbl) == [k \in 1..Len(tbl) |-> hp[tbl[k]].c]

\* threading.RLock: a thread holds a lock once per with statement it is inside of
Holds(t, l) == \E i \in 1..Len(thr[t].held) : thr[t].held[i] = l

\* the lock is free or held by t itself
Free(l, t) == \A u \in Threads \ {t} : ~Holds(u, l)

Pop(held) == SubSeq(held, 1, Len(held) - 1)

\* get_chunk returns: its with statement ends and the caller goes on
Return(th) == [th EXCEPT !.held = Pop(@), !.pc = th.cont]

\* sorted(self.chunks.items(), key=last_used)[:num_to_unload], as references
Victims(hp, tbl) ==
    [k \in 1..NumToUnload(Len(tbl)) |->
        tbl[CHOOSE i \in 1..Len(tbl) :
               Cardinality({j \in 1..Len(tbl) : Older(TableValues(hp, tbl), j, i)}) = k - 1]]

\* get_chunk after the insertion: the capacity check, and the entry into
\* _unload_oldest_chunks with its own with statement
CheckCapacityLocked(hp, tbl, th, e) ==
    IF Len(tbl) > e.max_chunks
    THEN [heap |-> hp, table |-> tbl,
          th |-> [th EXCEPT !.victims = Victims(hp, tbl),
                            !.held = Append(@, "chunk"), !.pc = "ev_next"]]
    ELSE [heap |-> hp, table |-> tbl, th |-> Return(th)]

InsertLocked(hp, tbl, th, obj, e) ==
    CheckCapacityLocked(Append(hp, obj), Append(tbl, Len(hp) + 1),
                        [th EXCEPT !.chunk = Len(hp) + 1, !.hit = FALSE], e)

\* get_chunk after _load_chunk returned ld
GetChunkMissLocked(hp, tbl, th, ld, e) ==
    IF ld.ret.some
    THEN InsertLocked(hp, tbl, th, [c |-> ld.ret.chunk, how |-> "loaded"], e)
    ELSE IF th.ggen
         THEN InsertLocked(hp, tbl, th,
                           [c |-> ChunkGenerate(NewChunk(th.gx, th.gz, e.t),
                                                e.ter[<<th.gx, th.gz>>], e.draw),
                            how |-> "generated"], e)
    ELSE [heap |-> hp, table |-> tbl, th |-> Return([th EXCEPT !.chunk = 0, !.hit = FALSE])]

\* the body of get_chunk, run with chunk_lock held; returns [heap, table, th]
GetChunkLocked(hp, tbl, dk, th, e) ==
    IF RefOf(hp, tbl, th.gx, th.gz) # 0
    THEN [heap |-> [hp EXCEPT ![RefOf(hp, tbl, th.gx, th.gz)].c.last_used = e.t],
          table |-> tbl,
          th |-> Return([th EXCEPT !.chunk = RefOf(hp, tbl, th.gx, th.gz), !.hit = TRUE])]
    ELSE GetChunkMissLocked(hp, tbl, th, LoadChunk(dk, th.gx, th.gz, e.t, e.io), e)

\* the first statements of a call: the range test of set_block, the tick test of
\* update, and the arguments of the get_chunk call the operation starts with
Enter(th, c) ==
    IF c.name = "get_chunk"
    THEN [th EXCEPT !.pc = "gc_lock", !.gx = c.cx, !.gz = c.cz, !.ggen = c.generate,
                    !.cont = "done"]
    ELSE IF c.name = "set_block"
    THEN IF ~(MIN_HEIGHT <= c.y /\ c.y < MAX_HEIGHT) THEN [th EXCEPT !.pc = "done"]
         ELSE [th EXCEPT !.pc = "gc_lock", !.gx = Shr4(c.x), !.gz = Shr4(c.z),
                         !.ggen = TRUE, !.cont = "sb_write"]
    ELSE IF c.name = "save_all" THEN [th EXCEPT !.pc = "sa_lock"]
    ELSE IF c.name = "update"
    THEN [th EXCEPT !.pc = IF AutosaveDue(c.tick) THEN "sa_lock" ELSE "done"]
    ELSE IF c.name = "generate_chunk"
    THEN [th EXCEPT !.pc = "gg_lock", !.gx = c.cx, !.gz = c.cz, !.ggen = FALSE,
                    !.cont = "gg_after"]
    ELSE [th EXCEPT !.pc = "pp_lock", !.gx = c.cx, !.gz = c.cz, !.ggen = FALSE,
                    !.cont = "pp_after"]

\* the key the call names is neither resident nor on disk when the call is made
Fresh(c) ==
    /\ c.name \in {"get_chunk", "generate_chunk", "populate_chunk"}
    /\ RefOf(heap, table, c.cx, c.cz) = 0
    /\ disk[<<c.cx, c.cz>>].kind = "none"

Step(t, th) == thr' = [thr EXCEPT ![t] = th]

\* a thread makes its call
CallAct(t, c) ==
    /\ thr[t].pc = "idle"
    /\ Step(t, Enter([thr[t] EXCEPT !.call = c, !.fresh = Fresh(c)], c))
    /\ UNCHANGED <<heap, table, col, chunks, disk, world_dat, view_distance, terrain,
                   now, io_failures, written, preRestart, gen, early, lastOp>>

\* with self.chunk_lock, at the head of get_chunk
GcLock(t) ==
    /\ thr[t].pc = "gc_lock"
    /\ Free("chunk", t)
    /\ Step(t, [thr[t] EXCEPT !.held = Append(@, "chunk"), !.pc = "gc_body"])
    /\ UNCHANGED <<heap, table, col, chunks, disk, world_dat, view_distance, terrain,
                   now, io_failures, written, preRestart, gen, early, lastOp>>

\* get_chunk from the lookup to the capacity check
GcBody(t, draw) ==
    /\ thr[t].pc = "gc_body"
    /\ \E r \in {GetChunkLocked(heap, table, disk, thr[t], Env("ok", draw))} :
          /\ heap' = r.heap
          /\ table' = r.table
          /\ Step(t, r.th)
    /\ UNCHANGED <<col, chunks, disk, world_dat, view_distance, terrain,
                   now, io_failures, written, preRestart, gen, early, lastOp>>

\* one pass of the loop of _unload_oldest_chunks up to the call of _save_chunk, or
\* through the del when the Chunk is not modified; after the last pass both with
\* statements end and get_chunk returns
EvNext(t) ==
    /\ thr[t].pc = "ev_next"
    /\ IF thr[t].victims = <<>>
       THEN /\ Step(t, Return([thr[t] EXCEPT !.held = Pop(@)]))
            /\ table' = table
       ELSE IF heap[Head(thr[t].victims)].c.modified
       THEN /\ Step(t, [thr[t] EXCEPT !.saving = Head(thr[t].victims),
                                      !.after = "ev_del", !.pc = "sv_lock"])
            /\ table' = table
       ELSE /\ Step(t, [thr[t] EXCEPT !.victims = Tail(@)])
            /\ table' = SelectSeq(table, LAMBDA r : r # Head(thr[t].victims))
    /\ UNCHANGED <<heap, col, chunks, disk, world_dat, view_distance, terrain,
                   now, io_failures, written, preRestart, gen, early, lastOp>>

\* del self.chunks[chunk_key], after _save_chunk returned
EvDel(t) ==
    /\ thr[t].pc = "ev_del"
    /\ table' = SelectSeq(table, LAMBDA r : r # Head(thr[t].victims))
    /\ Step(t, [thr[t] EXCEPT !.victims = Tail(@), !.pc = "ev_next"])
    /\ UNCHANGED <<heap, col, chunks, disk, world_dat, view_distance, terrain,
                   now, io_failures, written, preRestart, gen, early, lastOp>>

\* _save_chunk: the modified test, with self.save_lock, data = chunk.to_data()
SvLock(t) ==
    /\ thr[t].pc = "sv_lock"
    /\ IF ~heap[thr[t].saving].c.modified
       THEN Step(t, [thr[t] EXCEPT !.saving = 0, !.pc = thr[t].after])
       ELSE /\ Free("save", t)
            /\ Step(t, [thr[t] EXCEPT !.held = Append(@, "save"),
                                      !.data = ToData(heap[thr[t].saving].c),
                                      !.pc = "sv_write"])
    /\ UNCHANGED <<heap, table, col, chunks, disk, world_dat, view_distance, terrain,
                   now, io_failures, written, preRestart, gen, early, lastOp>>

\* _save_chunk: the file is opened and data is written to it
SvWrite(t) ==
    /\ thr[t].pc = "sv_write"
    /\ disk' = [disk EXCEPT ![<<thr[t].data.x, thr[t].data.z>>] = File(thr[t].data)]
    /\ Step(t, [thr[t] EXCEPT !.pc = "sv_clear"])
    /\ UNCHANGED <<heap, table, col, chunks, world_dat, view_distance, terrain,
                   now, io_failures, written, preRestart, gen, early, lastOp>>

\* _save_chunk: chunk.modified = False, and the with statement ends
SvClear(t) ==
    /\ thr[t].pc = "sv_clear"
    /\ heap' = [heap EXCEPT ![thr[t].saving].c.modified = FALSE]
    /\ Step(t, [thr[t] EXCEPT !.held = Pop(@), !.saving = 0, !.data = <<>>,
                              !.pc = thr[t].after])
    /\ UNCHANGED <<table, col, chunks, disk, world_dat, view_distance, terrain,
                   now, io_failures, written, preRestart, gen, early, lastOp>>

\* save_all: with self.chunk_lock, and the iterator over self.chunks.values()
SaLock(t) ==
    /\ thr[t].pc = "sa_lock"
    /\ Free("chunk", t)
    /\ Step(t, [thr[t] EXCEPT !.held = Append(@, "chunk"), !.todo = table,
                              !.pc = "sa_next"])
    /\ UNCHANGED <<heap, table, col, chunks, disk, world_dat, view_distance, terrain,
                   now, io_failures, written, preRestart, gen, early, lastOp>>

\* save_all: one pass of the loop up to the call of _save_chunk; after the last
\* pass the with statement ends and _save_world_data is called
SaNext(t) ==
    /\ thr[t].pc = "sa_next"
    /\ IF thr[t].todo = <<>>
       THEN Step(t, [thr[t] EXCEPT !.held = Pop(@), !.pc = "wd_lock"])
       ELSE IF heap[Head(thr[t].todo)].c.modified
       THEN Step(t, [thr[t] EXCEPT !.saving = Head(thr[t].todo), !.todo = Tail(@),
                                   !.after = "sa_next", !.pc = "sv_lock"])
       ELSE Step(t, [thr[t] EXCEPT !.todo = Tail(@)])
    /\ UNCHANGED <<heap, table, col, chunks, disk, world_dat, view_distance, terrain,
                   now, io_failures, written, preRestart, gen, early, lastOp>>

\* a _save_world_data that opens world.dat without taking save_lock
WdNoLock(t) ==
    /\ thr[t].pc = "wd_lock"
    /\ Step(t, [thr[t] EXCEPT !.held = Append(@, "none"), !.pc = "wd_write"])
    /\ UNCHANGED <<heap, table, col, chunks, disk, world_dat, view_distance, terrain,
                   now, io_failures, written, preRestart, gen, early, lastOp>>

\* a _save_world_data that, inside its with statement, goes through the table
WdLockThenTable(t) ==
    /\ thr[t].pc = "wd_lock"
    /\ Free("save", t)
    /\ Step(t, [thr[t] EXCEPT !.held = Append(@, "save"), !.pc = "sa_lock"])
    /\ UNCHANGED <<heap, table, col, chunks, disk, world_dat, view_distance, terrain,
                   now, io_failures, written, preRestart, gen, early, lastOp>>

\* _save_world_data: with self.save_lock
WdLock(t) ==
    /\ thr[t].pc = "wd_lock"
    /\ Free("save", t)
    /\ Step(t, [thr[t] EXCEPT !.held = Append(@, "save"), !.pc = "wd_write"])
    /\ UNCHANGED <<heap, table, col, chunks, disk, world_dat, view_distance, terrain,
                   now, io_failures, written, preRestart, gen, early, lastOp>>

\* _save_world_data: world.dat is opened and written, and the with statement ends
WdWrite(t) ==
    /\ thr[t].pc = "wd_write"
    /\ world_dat' = "ok"
    /\ Step(t, [thr[t] EXCEPT !.held = Pop(@), !.pc = "done"])
    /\ UNCHANGED <<heap, table, col, chunks, disk, view_distance, terrain,
                   now, io_failures, written, preRestart, gen, early, lastOp>>

\* WorldEngine.set_block after get_chunk returned: chunk.set_block, under no lock
SbWrite(t) ==
    /\ thr[t].pc = "sb_write"
    /\ IF thr[t].chunk = 0
       THEN /\ Step(t, [thr[t] EXCEPT !.ok = FALSE, !.pc = "done"])
            /\ heap' = heap
       ELSE \E r \in {ChunkSetBlock(heap[thr[t].chunk].c, And15(thr[t].call.x),
                                    thr[t].call.y, And15(thr[t].call.z),
                                    thr[t].call.id)} :
               /\ heap' = [heap EXCEPT ![thr[t].chunk].c = r.chunk]
               /\ Step(t, [thr[t] EXCEPT !.ok = r.result, !.pc = "done"])
    /\ UNCHANGED <<table, col, chunks, disk, world_dat, view_distance, terrain,
                   now, io_failures, written, preRestart, gen, early, lastOp>>

\* with self.chunk_lock, at the head of generate_chunk and of populate_chunk; the
\* get_chunk call follows
OuterLock(t) ==
    /\ thr[t].pc \in {"gg_lock", "pp_lock"}
    /\ Free("chunk", t)
    /\ Step(t, [thr[t] EXCEPT !.held = Append(@, "chunk"), !.pc = "gc_lock"])
    /\ UNCHANGED <<heap, table, col, chunks, disk, world_dat, view_distance, terrain,
                   now, io_failures, written, preRestart, gen, early, lastOp>>

\* generate_chunk after get_chunk returned: a missing Chunk is generated and
\* stored, and the with statement ends
GgAfter(t, draw) ==
    /\ thr[t].pc = "gg_after"
    /\ IF thr[t].chunk # 0
       THEN /\ Step(t, [thr[t] EXCEPT !.held = Pop(@), !.pc = "done"])
            /\ UNCHANGED <<heap, table>>
       ELSE /\ heap' = Append(heap,
                              [c |-> ChunkGenerate(NewChunk(thr[t].gx, thr[t].gz, now),
                                                   terrain[<<thr[t].gx, thr[t].gz>>], draw),
                               how |-> "generated"])
            /\ table' = Append(table, Len(heap) + 1)
            /\ Step(t, [thr[t] EXCEPT !.held = Pop(@), !.chunk = Len(heap) + 1,
                                      !.pc = "done"])
    /\ UNCHANGED <<col, chunks, disk, world_dat, view_distance, terrain,
                   now, io_failures, written, preRestart, gen, early, lastOp>>

\* the heap after Chunk.populate returned p on the object ref: the resident
\* objects take the values the pass left in the table, the object of the call
\* the value the pass left in it
PopulatedHeap(hp, tbl, ref, p) ==
    [i \in 1..Len(hp) |->
        IF i = ref THEN [hp[i] EXCEPT !.c = p.chunk]
        ELSE IF \E k \in 1..Len(tbl) : tbl[k] = i
                /\ IndexOf(p.chunks, hp[i].c.x, hp[i].c.z) # 0
        THEN [hp[i] EXCEPT !.c = p.chunks[IndexOf(p.chunks, hp[i].c.x, hp[i].c.z)]]
        ELSE hp[i]]

\* populate_chunk after get_chunk returned: Chunk.populate on a generated Chunk
\* that is not populated, and the with statement ends
PpAfter(t, pd, draw) ==
    /\ thr[t].pc = "pp_after"
    /\ IF thr[t].chunk # 0 /\ heap[thr[t].chunk].c.generated
          /\ ~heap[thr[t].chunk].c.populated
       THEN \E p \in {ChunkPopulate(heap[thr[t].chunk].c,
                                    RefOf(heap, table, thr[t].gx, thr[t].gz) = thr[t].chunk,
                                    TableValues(heap, table), disk, pd, Env("ok", draw))} :
               /\ heap' = PopulatedHeap(heap, table, thr[t].chunk, p)
               /\ disk' = p.disk
       ELSE UNCHANGED <<heap, disk>>
    /\ Step(t, [thr[t] EXCEPT !.held = Pop(@), !.pc = "done"])
    /\ UNCHANGED <<table, col, chunks, world_dat, view_distance, terrain,
                   now, io_failures, written, preRestart, gen, early, lastOp>>

\* the engine when the threads start: no Chunk, or the Chunk (0, 0) generated and
\* resident as generate_chunk(0, 0) leaves it
InitThreads ==
    /\ col = NewChunk(0, 0, 0)
    /\ chunks = <<>>
    /\ disk = [c \in PopCoords |-> NoFile]
    /\ world_dat = "ok"
    /\ view_distance \in 0..MaxViewDistance
    /\ terrain = [c \in PopCoords |-> [height |-> 47, temp |-> 10, humidity |-> 40]]
    /\ now = 0
    /\ io_failures = 0
    /\ written = <<>>
    /\ preRestart = <<>>
    /\ gen = <<>>
    /\ early = {}
    /\ \E draw \in WorldDraws :
          heap \in {<<>>, <<[c |-> ChunkGenerate(NewChunk(0, 0, 0), terrain[<<0, 0>>], draw),
                            how |-> "generated"]>>}
    /\ table = [k \in 1..Len(heap) |-> k]
    /\ thr = [t \in Threads |-> IdleThread]
    /\ lastOp = [op |-> "new"]

NextThreads ==
    \E t \in Threads :
        \/ \E c \in ThreadCalls : CallAct(t, c)
        \/ GcLock(t)
        \/ \E draw \in WorldDraws : GcBody(t, draw)
        \/ EvNext(t)
        \/ EvDel(t)
        \/ SvLock(t)
        \/ SvWrite(t)
        \/ SvClear(t)
        \/ SaLock(t)
        \/ SaNext(t)
        \/ WdLock(t)
        \/ WdWrite(t)
        \/ SbWrite(t)
        \/ OuterLock(t)
        \/ \E draw \in WorldDraws : GgAfter(t, draw)
        \/ \E pd \in PopDraws, draw \in WorldDraws : PpAfter(t, pd, draw)

SpecThreads == InitThreads /\ [][NextThreads]_vars

\* C21: in every Section that set_block calls have written or created, all_air is
\* true exactly when every block of the Section is 0, and empty is true exactly
\* when all_air is true.
C21_SectionFlags ==
    \A i \in DOMAIN col.sections :
        /\ col.sections[i].all_air <=> (\A p \in LPos : col.sections[i].blocks[p] = 0)
        /\ col.sections[i].empty <=> col.sections[i].all_air

\* C22: a Chunk.set_block call that returns false leaves the Chunk exactly as it
\* was: no block changed, no Section created, flags and height map unchanged.
C22_RejectedMutatesNothing ==
    [][(lastOp'.op = "Chunk.set_block" /\ ~lastOp'.result) => col' = col]_vars

\* a get_chunk miss on (cx, cz) whose file exists and cannot be loaded
UnreadableMiss(cx, cz, io) ==
    /\ IndexOf(chunks, cx, cz) = 0
    /\ disk[<<cx, cz>>].kind # "none"
    /\ LoadChunk(disk, cx, cz, now, io).failed

\* C23: a get_chunk miss whose file cannot be loaded returns absent and leaves the
\* table alone when generate is false, and when generate is true returns a newly
\* generated Chunk (generated, modified) that is in the resident table afterwards.
C23_UnreadableIsAbsent ==
    [][(lastOp'.op = "get_chunk" /\ UnreadableMiss(lastOp'.cx, lastOp'.cz, lastOp'.io))
         => IF lastOp'.generate
            THEN /\ lastOp'.ret.some
                 /\ lastOp'.ret.chunk.generated /\ lastOp'.ret.chunk.modified
                 /\ IndexOf(chunks', lastOp'.cx, lastOp'.cz) # 0
                 /\ chunks'[IndexOf(chunks', lastOp'.cx, lastOp'.cz)] = lastOp'.ret.chunk
            ELSE ~lastOp'.ret.some /\ chunks' = chunks]_vars

\* C24: a modified Chunk whose write failed during an eviction is still in the
\* resident table afterwards, with modified = true.
C24_FailedWriteKeepsState ==
    Evicting =>
        \A i \in 1..Len(lastOp.evicted) :
            (/\ lastOp.evicted[i].chunk.modified
             /\ lastOp.evicted[i].file # File(ToData(lastOp.evicted[i].chunk)))
            => /\ Resident(<<lastOp.evicted[i].chunk.x, lastOp.evicted[i].chunk.z>>)
               /\ \E k \in 1..Len(chunks) : chunks[k] = lastOp.evicted[i].chunk

\* C25: no failure of a file operation leaves get_chunk, get_block, set_block or
\* save_all as an exception.
C25_NoPropagation == lastOp.op # "raise"

\* the Chunk of n is resident and generated, or it is not resident and its file
\* holds a generated Chunk
ExistsGenerated(n) ==
    IF Resident(n) THEN chunks[IndexOf(chunks, n[1], n[2])].generated
    ELSE disk[n].kind = "data" /\ disk[n].data.generated

\* C26: are_surrounding_chunks_generated(x, z, radius) returns true exactly when
\* each of the (2 radius + 1)^2 Chunks around (x, z) is resident or on disk and is
\* generated, and it adds no Chunk to the table that was neither.
C26_SurroundingIff ==
    [][lastOp'.op = "are_surrounding_chunks_generated"
         => /\ lastOp'.result <=>
                 \A k \in 1..((2 * lastOp'.radius + 1) * (2 * lastOp'.radius + 1)) :
                     ExistsGenerated(Surrounding(lastOp'.cx, lastOp'.cz, lastOp'.radius)[k])
            /\ \A i \in 1..Len(chunks') :
                     \/ Resident(<<chunks'[i].x, chunks'[i].z>>)
                     \/ disk[<<chunks'[i].x, chunks'[i].z>>].kind # "none"]_vars

\* C27: for a Chunk.set_block call with x and z in [0, 16) and y in
\* [MIN_HEIGHT, MAX_HEIGHT), the section index and local y computed from y satisfy
\* section * 16 + local = y with 0 <= local <= 15, the call returns true and
\* Chunk.get_block at the position then returns the id written.
C27_FloorConversion ==
    (/\ lastOp.op = "Chunk.set_block"
     /\ 0 <= lastOp.x /\ lastOp.x < CHUNK_SIZE
     /\ 0 <= lastOp.z /\ lastOp.z < CHUNK_SIZE
     /\ MIN_HEIGHT <= lastOp.y /\ lastOp.y < MAX_HEIGHT)
    => /\ SectionY(lastOp.y) * SECTION_HEIGHT + LocalY(lastOp.y) = lastOp.y
       /\ 0 <= LocalY(lastOp.y) /\ LocalY(lastOp.y) <= SECTION_HEIGHT - 1
       /\ lastOp.result
       /\ ChunkGetBlock(col, lastOp.x, lastOp.y, lastOp.z) = lastOp.id

\* the line (x, z) of the generated Chunk c, whose terrain height is h, is filled
\* from the floor upward
LineFilled(c, x, z, h) ==
    \A y \in TrackedYs :
        /\ y = MIN_HEIGHT => ChunkGetBlock(c, x, y, z) = 1
        /\ (MIN_HEIGHT <= y /\ y <= h) => ChunkGetBlock(c, x, y, z) # 0
        /\ (h < y /\ y <= 63 /\ h < 63) => ChunkGetBlock(c, x, y, z) = 8
        /\ (h < y /\ ~(y <= 63 /\ h < 63)) => ChunkGetBlock(c, x, y, z) = 0

\* C28: after Chunk.generate, every line has bedrock at MIN_HEIGHT, a non-air
\* block at every y from MIN_HEIGHT to the terrain height, water above the
\* terrain up to y = 63 where the terrain is below 63, and air above.
C28_ColumnFilled ==
    \A r \in Runs, c \in GenCoords :
        gen.cols[r][c].generated =>
            \A l \in SampleLines :
                LineFilled(gen.cols[r][c], l[1], l[2], terrain[c].height)

\* C29: the sections map of Chunk.to_data has an entry for an index exactly when
\* the Chunk holds a Section there whose empty flag is false, and those are the
\* Sections that hold a non-air block: a Section that holds only air is not
\* serialized.
C29_SparseSerialization ==
    /\ DOMAIN ToData(col).sections = {i \in DOMAIN col.sections : ~col.sections[i].empty}
    /\ \A i \in DOMAIN ToData(col).sections :
           \E p \in LPos : col.sections[i].blocks[p] # 0

\* C30: an eviction leaves the file of every Chunk it removes with modified =
\* false as it was and drops the Chunk from the table; when every Chunk it
\* removes is unmodified, no file changes.
C30_CleanEvictionNoWrite ==
    [][(lastOp'.op = "get_chunk" /\ lastOp'.evN > 0)
         => /\ \A i \in 1..Len(lastOp'.evicted) :
                  ~lastOp'.evicted[i].chunk.modified
                  => /\ disk'[<<lastOp'.evicted[i].chunk.x, lastOp'.evicted[i].chunk.z>>]
                          = disk[<<lastOp'.evicted[i].chunk.x, lastOp'.evicted[i].chunk.z>>]
                     /\ IndexOf(chunks', lastOp'.evicted[i].chunk.x,
                                lastOp'.evicted[i].chunk.z) = 0
            /\ (\A i \in 1..Len(lastOp'.evicted) : ~lastOp'.evicted[i].chunk.modified)
                  => disk' = disk]_vars

\* a saved, unmodified Chunk was evicted by a get_chunk whose writes would fail
C30_Witness ==
    /\ lastOp.op = "get_chunk" /\ lastOp.evN > 0
    /\ lastOp.io = "wtrunc"
    /\ \E i \in 1..Len(lastOp.evicted) :
          /\ ~lastOp.evicted[i].chunk.modified
          /\ lastOp.evicted[i].file.kind = "data"
          /\ ~Resident(<<lastOp.evicted[i].chunk.x, lastOp.evicted[i].chunk.z>>)

\* C32: update(tick_number) runs save_all exactly when tick_number is a multiple
\* of 20 * 60 * 5 = 6000.
C32_AutosaveEvery6000 ==
    lastOp.op = "update" => (lastOp.saved <=> lastOp.tick % (20 * 60 * 5) = 0)

\* the file of the resident Chunk c deserializes to a Chunk with the contents and
\* flags of c
FileMatches(c) ==
    /\ disk[<<c.x, c.z>>].kind = "data"
    /\ FromData(disk[<<c.x, c.z>>].data, now).ok
    /\ SameContents(FromData(disk[<<c.x, c.z>>].data, now).value, c)
    /\ FromData(disk[<<c.x, c.z>>].data, now).value.generated = c.generated
    /\ FromData(disk[<<c.x, c.z>>].data, now).value.populated = c.populated

\* C34: while no file operation has failed, every resident Chunk with modified =
\* false has a file whose deserialized contents and flags equal its own.
C34_CleanMatchesFile ==
    io_failures = 0 =>
        \A i \in 1..Len(chunks) : ~chunks[i].modified => FileMatches(chunks[i])

\* C38: the Chunk a get_chunk miss returns (loaded or generated) is the resident
\* Chunk of its coordinate when the call returns.
C38_InsertedStaysResident ==
    (lastOp.op = "get_chunk" /\ ~lastOp.hit /\ lastOp.ret.some)
    => /\ Resident(<<lastOp.cx, lastOp.cz>>)
       /\ chunks[IndexOf(chunks, lastOp.cx, lastOp.cz)] = lastOp.ret.chunk

\* C40: while no file operation has failed, get_chunk and generate_chunk run the
\* terrain pass only for a coordinate that has no file on disk.
C40_GeneratedOnce ==
    [][(/\ io_failures' = 0
        /\ \/ lastOp'.op = "get_chunk" /\ lastOp'.generated
           \/ lastOp'.op = "generate_chunk" /\ lastOp'.inserted)
         => disk[<<lastOp'.cx, lastOp'.cz>>].kind = "none"]_vars

\* C39: after a populate_chunk call that ran Chunk.populate on the resident Chunk
\* of (cx, cz), the Chunk the pass wrote and flagged is the resident Chunk of
\* (cx, cz), and the call neither removed a Chunk from the table nor added one.
C39_PopulatedStaysResident ==
    [][(/\ lastOp'.op = "populate_chunk"
        /\ lastOp'.before.some
        /\ lastOp'.before.chunk.generated /\ ~lastOp'.before.chunk.populated)
         => /\ IndexOf(chunks', lastOp'.cx, lastOp'.cz) # 0
            /\ chunks'[IndexOf(chunks', lastOp'.cx, lastOp'.cz)] = lastOp'.ret.chunk
            /\ lastOp'.ret.chunk.populated
            /\ [k \in 1..Len(chunks') |-> <<chunks'[k].x, chunks'[k].z>>]
                 = [k \in 1..Len(chunks) |-> <<chunks[k].x, chunks[k].z>>]]_vars

\* the pass ran its neighbour check while a neighbour was on disk and not resident
C39_Witness ==
    /\ lastOp.op = "populate_chunk"
    /\ lastOp.before.some
    /\ lastOp.before.chunk.generated /\ ~lastOp.before.chunk.populated
    /\ lastOp.calls >= 1
    /\ disk[PopOrder[2]].kind = "data" /\ ~Resident(PopOrder[2])
    /\ Resident(PopTarget)

\* the positions at which a thread reads or changes the resident table
TablePcs == {"gc_body", "ev_next", "ev_del", "sa_next", "gg_after", "pp_after"}

\* the positions at which a thread has a Column file or world.dat open for writing
WritePcs == {"sv_write", "wd_write"}

\* C31: a thread that looks up, inserts into, evicts from or iterates over the
\* resident table holds chunk_lock, a thread that writes a file holds save_lock,
\* neither lock is held by two threads, and at most one thread is writing.
C31_TwoScopes ==
    /\ \A t \in Threads : thr[t].pc \in TablePcs => Holds(t, "chunk")
    /\ \A t \in Threads : thr[t].pc \in WritePcs => Holds(t, "save")
    /\ \A t \in Threads, l \in {"chunk", "save"} : Holds(t, l) => Free(l, t)
    /\ Cardinality({t \in Threads : thr[t].pc \in WritePcs}) <= 1

\* one thread is writing world.dat while another, inside the table scope, waits
\* for save_lock to write a Column file
C31_Witness ==
    \E t \in Threads, u \in Threads :
        /\ thr[t].pc = "wd_write"
        /\ thr[u].pc = "sv_lock"
        /\ heap[thr[u].saving].c.modified
        /\ Holds(u, "chunk")

\* the positions at which a thread asks for chunk_lock
ChunkRequestPcs == {"gc_lock", "sa_lock", "gg_lock", "pp_lock"}

\* the thread waits for a lock that another thread holds
Blocked(t) ==
    \/ thr[t].pc \in ChunkRequestPcs /\ ~Free("chunk", t)
    \/ thr[t].pc = "sv_lock" /\ heap[thr[t].saving].c.modified /\ ~Free("save", t)
    \/ thr[t].pc = "wd_lock" /\ ~Free("save", t)

\* C37: in the locks a thread holds chunk_lock never comes after save_lock, no
\* thread asks for chunk_lock while it holds save_lock, a thread that returned
\* holds nothing, and the threads that have not returned are never all waiting.
C37_NoDeadlock ==
    /\ \A t \in Threads : \A i \in 1..Len(thr[t].held), j \in 1..Len(thr[t].held) :
          i < j => ~(thr[t].held[i] = "save" /\ thr[t].held[j] = "chunk")
    /\ \A t \in Threads : Holds(t, "save") => thr[t].pc \notin ChunkRequestPcs
    /\ \A t \in Threads : thr[t].pc = "done" => thr[t].held = <<>>
    /\ (\E t \in Threads : Blocked(t)) =>
          \E t \in Threads : ~Blocked(t) /\ thr[t].pc # "done"

\* a thread holds chunk_lock and then save_lock while it writes a Column file, and
\* another thread waits for chunk_lock
C37_Witness ==
    \E t \in Threads, u \in Threads :
        /\ thr[t].held = <<"chunk", "chunk", "save">>
        /\ thr[t].pc = "sv_write"
        /\ thr[u].pc = "gc_lock"
        /\ Blocked(u)

\* the Chunk objects the generator's terrain pass produced for the key (cx, cz)
GeneratedFor(cx, cz) ==
    {i \in 1..Len(heap) : heap[i].how = "generated" /\ heap[i].c.x = cx /\ heap[i].c.z = cz}

\* every thread called get_chunk(0, 0, True) while (0, 0) was neither resident nor
\* on disk, and every call has returned
BothGotFresh ==
    \A t \in Threads :
        /\ thr[t].pc = "done"
        /\ thr[t].call = [name |-> "get_chunk", cx |-> 0, cz |-> 0, generate |-> TRUE]
        /\ thr[t].fresh

\* C33: when all threads called get_chunk(x, z, True) for a coordinate that was
\* neither resident nor on disk, the terrain pass ran once for it, the table holds
\* one Column for it, and every caller received that Column.
C33_OneInstance ==
    BothGotFresh =>
        /\ Cardinality(GeneratedFor(0, 0)) = 1
        /\ Cardinality({k \in 1..Len(table) : table[k] \in GeneratedFor(0, 0)}) = 1
        /\ \A t \in Threads : thr[t].chunk = RefOf(heap, table, 0, 0)

AllDone == \A t \in Threads : thr[t].pc = "done"

\* the thread's set_block found its Column resident and returned true
WroteResident(t) ==
    /\ thr[t].pc = "done"
    /\ thr[t].call.name = "set_block"
    /\ thr[t].hit
    /\ thr[t].ok

\* the block a saved file holds at a world position
FileBlock(f, x, y, z) ==
    IF f.kind # "data" \/ SectionY(y) \notin DOMAIN f.data.sections THEN 0
    ELSE f.data.sections[SectionY(y)].blocks[<<And15(x), LocalY(y), And15(z)>>]

\* the block the engine holds for a world position: the resident Column's, or the
\* saved file's when the Column is not resident
StoredBlock(x, y, z) ==
    IF RefOf(heap, table, Shr4(x), Shr4(z)) # 0
    THEN ChunkGetBlock(heap[RefOf(heap, table, Shr4(x), Shr4(z))].c, And15(x), y, And15(z))
    ELSE FileBlock(disk[<<Shr4(x), Shr4(z)>>], x, y, z)

\* C35: when one thread's set_block on a resident Column returned true while the
\* other thread called get_chunk, then after both returned the engine holds the
\* written block at the position, in the resident Column or in its saved file.
C35_WriteSurvivesEviction ==
    \A t \in Threads, u \in Threads :
        (AllDone /\ WroteResident(t) /\ thr[u].call.name = "get_chunk")
        => StoredBlock(thr[t].call.x, thr[t].call.y, thr[t].call.z) = thr[t].call.id

\* C36: when one thread's set_block on a resident Column returned true while the
\* other thread ran save_all, update or an evicting get_chunk, then after both
\* returned the Column's modified flag is true or its file holds the written block.
C36_DirtyOrPersisted ==
    \A t \in Threads, u \in Threads :
        (AllDone /\ WroteResident(t)
            /\ thr[u].call.name \in {"save_all", "update", "get_chunk"})
        => \/ heap[thr[t].chunk].c.modified
           \/ FileBlock(disk[<<Shr4(thr[t].call.x), Shr4(thr[t].call.z)>>],
                        thr[t].call.x, thr[t].call.y, thr[t].call.z) = thr[t].call.id

====
